---- MODULE Spec2Model ----
(***************************************************************************)
(* GarageTracker: the distance converter of the LanguageProvider, the      *)
(* maintenance status engine of the backend, and the CarDetail page with   *)
(* its handlers, the backend's task records and the fetches in flight.     *)
(*                                                                         *)
(* The specifications of the module:                                       *)
(*   SpecUnits   calls of convertDistance / formatDistance                 *)
(*   SpecEngine  one evaluation of the status engine per input             *)
(*   Spec        the CarDetail page against the backend                    *)
(*   SpecForms   the forms of CarDetail and the Dashboard                  *)
(*   SpecAddTask the add-task dialog of CarDetail                          *)
(*   SpecPrefs   the preferences, their effects and localStorage           *)
(*   SpecRoutes  the routes of App under a changing auth state             *)
(*   SpecUpload  the image of the add-vehicle form                         *)
(***************************************************************************)
EXTENDS Integers, Sequences, FiniteSets, TLC

VARIABLES
    \* ---- LanguageProvider (context/LanguageContext.js)
    distanceUnit,   \* the distanceUnit state: "miles" | "km"
    convCall,       \* the last call of convertDistance / formatDistance and its result
    \* ---- status engine (backend, evaluated per task on retrieval)
    seIn,           \* the input of one evaluation
    seOut,          \* its result, NoResult before the evaluation
    \* ---- backend records (one car)
    srvTasks,       \* task id -> the stored fields of the task
    srvMileage,     \* the car's current_mileage
    \* ---- CarDetail (pages/CarDetail.js)
    car,            \* useState(null)
    tasks,          \* useState([]): task id -> the task as last fetched
    loading,        \* useState(true)
    completeTaskOpen,   \* useState(null): the task whose complete dialog is open
    completeMileage,    \* useState(0)
    replacementOpen,    \* useState(null)
    replacementReason,  \* useState('')
    inflight,       \* the responses of the fetchCarData calls not yet resolved (a set)
    lastOp,         \* the step just taken: handler, task, outcome, argument
    addTaskOpen,    \* useState(false)
    newTask,        \* useState({task_type: '', last_performed_mileage: 0, ...})
    addMileageOpen, \* useState(false)
    newMileage,     \* useState({mileage: 0, notes: ''}): its mileage
    request,        \* the request the step just taken put on the wire, NoRequest if none
    \* ---- backend records (the cars added from the Dashboard)
    srvCars,        \* car id -> the stored fields of the car
    \* ---- Dashboard (pages/Dashboard.js)
    dashLoading,    \* useState(true): loading
    cars,           \* useState([]): car id -> the car as last fetched
    dashInflight,   \* the responses of the fetchData calls not yet resolved (a set)
    addCarOpen,     \* useState(false)
    newCar,         \* useState({..., current_mileage: 0, image_url: ''})
    imagePreview,   \* useState(null)
    imageMethod,    \* useState('upload')
    reading,        \* the files a FileReader is reading (a set)
    \* ---- LanguageProvider: preferences and their persistence
    language,       \* the language state
    storage,        \* localStorage: key -> the stored text, "null" when absent
    pendingEffects, \* the effects scheduled by a render and not yet run (a set of keys)
    documentLang,   \* document.documentElement.lang
    memo,           \* a result a consumer holds on to, to compare a later call with
    \* ---- App: the router and the auth state it reads
    history,        \* the browser's history entries, the last one the current location
    authLoading,    \* useAuth().loading
    user,           \* useAuth().user, NoUser for null
    screen,         \* the element the routes render at the current location
    \* ---- AIMechanic (the chat page)
    messages,       \* useState([greeting]): the transcript
    chatInput,      \* useState(''): input
    chatLoading,    \* useState(false): loading
    chatView,       \* the input and loading of the committed render, which the
                    \* handlers and the controls of the page read
    chatInflight,   \* the POST /chat requests not yet settled (a set)
    \* ---- Register (pages/Register.js)
    password,       \* useState('')
    confirmPassword,    \* useState('')
    regLoading,     \* useState(false): loading
    regView,        \* the passwords and loading of the committed render
    regInflight,    \* the register(...) calls not yet settled: the passwords sent
    \* ---- what the pages derive from their task lists at a render
    dashTasks,      \* Dashboard: useState([]): tasks, as fetched
    upcomingTasks,  \* Dashboard: the list of the 'Upcoming Maintenance' card
    statusCounts,   \* CarDetail: getStatusCounts()
    badges,         \* CarDetail: the badge of each task card
    \* ---- NearbyMechanics (pages/NearbyMechanics.js)
    location,       \* useState(null)
    geoLoading,     \* useState(false): loading
    error,          \* useState(null)
    searchQuery,    \* useState('auto mechanic')
    geoSupported,   \* whether the browser has navigator.geolocation
    geoPending,     \* the getCurrentPosition calls not yet answered (a count)
    \* ---- CarDetail: the edit dialog of the car
    srvPlate,       \* backend: the license_plate stored for the car
    editCarOpen,    \* useState(false)
    editCar,        \* useState({}): the car as the edit form holds it
    \* ---- App: the <Navigate> elements followed in a row
    redirects       \* since the last navigation or change of the auth state

unitVars   == <<distanceUnit, convCall>>
engineVars == <<seIn, seOut>>
srvVars    == <<srvTasks, srvMileage>>
pageVars   == <<car, tasks, loading, completeTaskOpen, completeMileage,
                replacementOpen, replacementReason, inflight, lastOp>>
formVars   == <<addTaskOpen, newTask, addMileageOpen, newMileage>>
dashVars   == <<srvCars, dashLoading, cars, dashInflight, addCarOpen, newCar,
                imagePreview, imageMethod, reading>>
prefVars   == <<language, storage, pendingEffects, documentLang, memo>>
routeVars  == <<history, authLoading, user, screen, redirects>>
chatVars   == <<messages, chatInput, chatLoading, chatView, chatInflight>>
\* the pages that share nothing with CarDetail, the Dashboard and the providers
regVars    == <<password, confirmPassword, regLoading, regView, regInflight>>
listVars   == <<dashTasks, upcomingTasks, statusCounts, badges>>
geoVars    == <<location, geoLoading, error, searchQuery, geoSupported, geoPending>>
editVars   == <<srvPlate, editCarOpen, editCar>>
otherVars  == <<chatVars, regVars, listVars, geoVars, editVars>>
\* everything of CarDetail, the Dashboard, the providers and the router but
\* lastOp and request
appVars    == <<distanceUnit, convCall, seIn, seOut, srvTasks, srvMileage,
                car, tasks, loading, completeTaskOpen, completeMileage,
                replacementOpen, replacementReason, inflight,
                addTaskOpen, newTask, addMileageOpen, newMileage,
                srvCars, dashLoading, cars, dashInflight, addCarOpen, newCar,
                imagePreview, imageMethod, reading,
                language, storage, pendingEffects, documentLang, memo,
                history, authLoading, user, screen, redirects>>
\* what CarDetail and its endpoints leave alone
offCarDetail == <<dashVars, prefVars, routeVars, otherVars>>
\* what the Dashboard and its endpoints leave alone
offDashboard == <<srvTasks, car, tasks, loading, completeTaskOpen, completeMileage,
                  replacementOpen, replacementReason, inflight, formVars, prefVars,
                  routeVars, otherVars>>
extVars    == <<request, dashVars, prefVars, routeVars, otherVars>>
vars       == <<distanceUnit, convCall, seIn, seOut, srvTasks, srvMileage,
                car, tasks, loading, completeTaskOpen, completeMileage,
                replacementOpen, replacementReason, inflight, lastOp,
                addTaskOpen, newTask, addMileageOpen, newMileage, request,
                srvCars, dashLoading, cars, dashInflight, addCarOpen, newCar,
                imagePreview, imageMethod, reading,
                language, storage, pendingEffects, documentLang, memo,
                history, authLoading, user, screen,
                messages, chatInput, chatLoading, chatView, chatInflight,
                password, confirmPassword, regLoading, regView, regInflight,
                dashTasks, upcomingTasks, statusCounts, badges,
                location, geoLoading, error, searchQuery, geoSupported, geoPending,
                srvPlate, editCarOpen, editCar, redirects>>

\* what each of the other pages leaves alone
offChat     == <<appVars, regVars, listVars, geoVars, editVars>>
offRegister == <<distanceUnit, convCall, seIn, seOut, srvTasks, srvMileage,
                 car, tasks, loading, completeTaskOpen, completeMileage,
                 replacementOpen, replacementReason, inflight, formVars, dashVars,
                 prefVars, chatVars, listVars, geoVars, editVars>>

(***************************************************************************)
(* Bounds of the model.                                                    *)
(***************************************************************************)
MaxDistance   == 170        \* distances passed to the converter: -MinDistance..MaxDistance
MinDistance   == 2
MileageSlack  == 1          \* odometer readings tried around each key mileage
MaxIntervalMonths == 14     \* interval_months tried by the next-due inputs
MaxMileageSteps == 1        \* odometer readings of the page: 0, 500, ..., 500 * MaxMileageSteps
MaxReasonLen  == 1          \* characters of a replacement reason
MaxInflight   == 1          \* fetchCarData calls in flight at once

(***************************************************************************)
(* UnitConverter: convertDistance / formatDistance.                        *)
(***************************************************************************)
\* A distance argument is a number or missing (undefined / null).
Num(n)   == [t |-> "number", n |-> n]
Missing  == [t |-> "undefined"]
IsNum(value) == value.t = "number"
NoCall   == [fn |-> "none"]

Units    == {"miles", "km"}

\* JavaScript truthiness of a distance: undefined, null and 0 are falsy.
Falsy(value) == ~IsNum(value) \/ value.n = 0

\* Math.round(n * 1.60934): the nearest integer, a half rounded towards
\* +infinity. 1.60934 is 80467 / 50000; with n = 25000 q + r the product is
\* (80467 q + 80467 r / 25000) / 2, and floor(x + 1/2) is taken of that, in
\* steps that stay within 32 bits.
MathRoundKm(n) ==
    LET q == n \div 25000
        r == n % 25000
    IN  (q * 80467 + 1 + ((r * 80467) \div 25000)) \div 2

\* A mutant: Math.floor in place of Math.round.
convertDistance_floor(value, toUnit) ==
    IF Falsy(value) THEN 0
    ELSE IF toUnit = "km"
         THEN ((value.n \div 25000) * 80467 + (((value.n % 25000) * 80467) \div 25000)) \div 2
    ELSE value.n

convertDistance(value, toUnit) ==
    IF Falsy(value) THEN 0
    ELSE IF toUnit = "km" THEN MathRoundKm(value.n)
    ELSE value.n

Digit(d) == <<"0", "1", "2", "3", "4", "5", "6", "7", "8", "9">>[d + 1]

RECURSIVE Digits(_)
Digits(n) == IF n < 10 THEN Digit(n) ELSE Digits(n \div 10) \o Digit(n % 10)

Pad3(n) == Digit(n \div 100) \o Digit((n \div 10) % 10) \o Digit(n % 10)

RECURSIVE Grouped(_)
Grouped(n) == IF n < 1000 THEN Digits(n)
              ELSE Grouped(n \div 1000) \o "," \o Pad3(n % 1000)

\* Number.prototype.toLocaleString of an integer: digits in groups of three.
toLocaleString(n) == IF n < 0 THEN "-" \o Grouped(0 - n) ELSE Grouped(n)

\* A mutant: the unit is read back from localStorage at each call.
formatDistance_stored(value, showUnit) ==
    IF Falsy(value) /\ ~(IsNum(value) /\ value.n = 0) THEN "N/A"
    ELSE LET stored    == IF storage.distanceUnit = "km" THEN "km" ELSE "miles"
             converted == convertDistance(value, stored)
             unit      == IF stored = "km" THEN "km" ELSE "mi"
         IN  IF showUnit THEN toLocaleString(converted) \o " " \o unit
             ELSE toLocaleString(converted)

\* A mutant: the guard without its "value !== 0" exemption.
formatDistance_zeroNA(value, showUnit) ==
    IF Falsy(value) THEN "N/A"
    ELSE LET converted == convertDistance(value, distanceUnit)
             unit      == IF distanceUnit = "km" THEN "km" ELSE "mi"
         IN  IF showUnit THEN toLocaleString(converted) \o " " \o unit
             ELSE toLocaleString(converted)

formatDistance(value, showUnit) ==
    IF Falsy(value) /\ ~(IsNum(value) /\ value.n = 0) THEN "N/A"
    ELSE LET converted == convertDistance(value, distanceUnit)
             unit      == IF distanceUnit = "km" THEN "km" ELSE "mi"
         IN  IF showUnit THEN toLocaleString(converted) \o " " \o unit
             ELSE toLocaleString(converted)

\* Every small distance, and some large ones (25000 mi is 40233.5 km).
LargeDistances == {999, 1000, 1234, 25000, 62137, 1000000}
Distances == ((0 - MinDistance)..MaxDistance) \cup LargeDistances
Values    == {Num(n) : n \in Distances} \cup {Missing}

\* The provider's initial unit: localStorage.getItem('distanceUnit') || 'miles'.
SavedUnits == {"null", "miles", "km"}
InitialUnit(saved) == IF saved = "null" THEN "miles" ELSE saved

setDistanceUnit(u) ==
    /\ distanceUnit' = u
    /\ convCall' = NoCall
    /\ pendingEffects' = IF u # distanceUnit THEN pendingEffects \cup {"distanceUnit"}
                         ELSE pendingEffects
    /\ UNCHANGED <<language, storage, documentLang, memo>>
    /\ UNCHANGED <<engineVars, srvVars, pageVars, formVars, request, dashVars, routeVars,
                   otherVars>>

\* A consumer calls convertDistance(value, toUnit); toUnit defaults to distanceUnit.
CallConvertDistance(value, toUnit) ==
    /\ convCall' = [fn |-> "convertDistance", value |-> value, toUnit |-> toUnit,
                    result |-> convertDistance(value, toUnit)]
    /\ UNCHANGED <<distanceUnit, engineVars, srvVars, pageVars, formVars, extVars>>

CallFormatDistance(value, showUnit) ==
    /\ convCall' = [fn |-> "formatDistance", value |-> value, showUnit |-> showUnit,
                    result |-> formatDistance(value, showUnit)]
    /\ UNCHANGED <<distanceUnit, engineVars, srvVars, pageVars, formVars, extVars>>

(***************************************************************************)
(* App: ProtectedRoute, PublicRoute and the route table.                   *)
(***************************************************************************)
MaxHistory == 2             \* entries of the browser's history

NoUser   == "null"
Users    == {NoUser, "ana"}

\* What a route renders: the spinner, a <Navigate to replace />, or a page.
Spinner      == [kind |-> "spinner", of |-> ""]
Navigate(to) == [kind |-> "navigate", of |-> to]
Page(name)   == [kind |-> "page", of |-> name]

\* A mutant: ProtectedRoute without its loading branch.
ProtectedRoute_noLoading(children, loadingNow, userNow) ==
    IF userNow = NoUser THEN Navigate("/login") ELSE children

\* A mutant: without a user ProtectedRoute sends to the root route.
ProtectedRoute_toRoot(children, loadingNow, userNow) ==
    IF loadingNow THEN Spinner
    ELSE IF userNow = NoUser THEN Navigate("/")
    ELSE children

ProtectedRoute(children, loadingNow, userNow) ==
    IF loadingNow THEN Spinner
    ELSE IF userNow = NoUser THEN Navigate("/login")
    ELSE children

PublicRoute(children, loadingNow, userNow) ==
    IF loadingNow THEN Spinner
    ELSE IF userNow # NoUser THEN Navigate("/dashboard")
    ELSE children

\* The locations the model visits; "/cars/1" and "/cars/2" match cars/:carId
\* and "/garage" matches only "*".
CarPaths       == {"/cars/1", "/cars/2"}
ProtectedPaths == {"/", "/dashboard", "/nearby-mechanics", "/settings"} \cup CarPaths
Paths          == {"/login", "/register", "/garage"} \cup ProtectedPaths
ProtectedPages == {"Dashboard", "CarDetail", "NearbyMechanics", "Settings"}

\* <Routes>: the element of the route that matches the location.
Element(path, loadingNow, userNow) ==
    CASE path = "/login"    -> PublicRoute(Page("Login"), loadingNow, userNow)
      [] path = "/register" -> PublicRoute(Page("Register"), loadingNow, userNow)
      [] path = "/"         -> ProtectedRoute(Navigate("/dashboard"), loadingNow, userNow)
      [] path = "/dashboard" -> ProtectedRoute(Page("Dashboard"), loadingNow, userNow)
      [] path \in CarPaths  -> ProtectedRoute(Page("CarDetail"), loadingNow, userNow)
      [] path = "/nearby-mechanics" ->
             ProtectedRoute(Page("NearbyMechanics"), loadingNow, userNow)
      [] path = "/settings" -> ProtectedRoute(Page("Settings"), loadingNow, userNow)
      [] OTHER              -> Navigate("/dashboard")

Location == history[Len(history)]

\* The longest chain of <Navigate> elements of the routes: "*" to /dashboard,
\* and ProtectedRoute from there to /login.
LongestChain == 2

offRoutes == <<unitVars, engineVars, srvVars, pageVars, formVars, request, dashVars,
               prefVars, otherVars>>

\* A link is followed: a new history entry, and the routes render again. A
\* rendered <Navigate> acts before anything else can.
GoTo(path) ==
    /\ screen.kind # "navigate"
    /\ Len(history) < MaxHistory
    /\ history' = Append(history, path)
    /\ screen' = Element(path, authLoading, user)
    /\ redirects' = 0
    /\ UNCHANGED <<authLoading, user, offRoutes>>

\* The browser's back button.
GoBack ==
    /\ screen.kind # "navigate"
    /\ Len(history) > 1
    /\ history' = SubSeq(history, 1, Len(history) - 1)
    /\ screen' = Element(history'[Len(history')], authLoading, user)
    /\ redirects' = 0
    /\ UNCHANGED <<authLoading, user, offRoutes>>

\* <Navigate to=... replace />: the current entry is replaced.
FollowNavigate ==
    /\ screen.kind = "navigate"
    /\ history' = [history EXCEPT ![Len(history)] = screen.of]
    /\ screen' = Element(screen.of, authLoading, user)
    /\ redirects' = redirects + 1
    /\ UNCHANGED <<authLoading, user, offRoutes>>

\* The auth context changes (the session check ends, a login, a logout) and
\* the routes render again.
AuthChange(loadingNow, userNow) ==
    /\ screen.kind # "navigate"
    /\ <<loadingNow, userNow>> # <<authLoading, user>>
    /\ authLoading' = loadingNow
    /\ user' = userNow
    /\ screen' = Element(Location, loadingNow, userNow)
    /\ redirects' = 0
    /\ UNCHANGED <<history, offRoutes>>

(***************************************************************************)
(* LanguageProvider: the preferences, their effects and localStorage.      *)
(***************************************************************************)
PrefKeys  == {"language", "distanceUnit"}
\* The language codes the model selects in Settings.
Languages == {"en", "es"}
\* The lang attribute of the document as served, before any effect has run.
HtmlLang  == ""
NoMemo    == [call |-> NoCall]

\* A mutant: the provider ignores the stored language.
InitialLanguage_default(saved) == "en"

\* The provider's initial language: localStorage.getItem('language') || 'en'.
InitialLanguage(saved) == IF saved = "null" THEN "en" ELSE saved

\* Select onValueChange={setLanguage}; a render with a changed language
\* schedules the effect that depends on it.
setLanguage(l) ==
    /\ language' = l
    /\ pendingEffects' = IF l # language THEN pendingEffects \cup {"language"}
                         ELSE pendingEffects
    /\ UNCHANGED <<distanceUnit, convCall, storage, documentLang, memo>>
    /\ UNCHANGED <<engineVars, srvVars, pageVars, formVars, request, dashVars, routeVars,
                   otherVars>>

\* An effect runs: localStorage.setItem(key, value), and for the language
\* document.documentElement.lang = language.
RunEffect(key) ==
    /\ key \in pendingEffects
    /\ pendingEffects' = pendingEffects \ {key}
    /\ storage' = [storage EXCEPT ![key] = IF key = "language" THEN language
                                           ELSE distanceUnit]
    /\ documentLang' = IF key = "language" THEN language ELSE documentLang
    /\ UNCHANGED <<language, distanceUnit, convCall, memo>>
    /\ UNCHANGED <<engineVars, srvVars, pageVars, formVars, request, dashVars, routeVars,
                   otherVars>>

\* The page is loaded anew: a provider starts, reads its preferences from
\* localStorage, and its first render schedules both effects.
MountProvider ==
    /\ language' = InitialLanguage(storage.language)
    /\ distanceUnit' = InitialUnit(storage.distanceUnit)
    /\ pendingEffects' = PrefKeys
    /\ documentLang' = HtmlLang
    /\ convCall' = NoCall
    /\ UNCHANGED <<storage, memo>>
    /\ UNCHANGED <<engineVars, srvVars, pageVars, formVars, request, dashVars, routeVars,
                   otherVars>>

\* A consumer keeps the result of the call it just made, with the
\* preferences of the render the call was made in.
Remember ==
    /\ convCall # NoCall
    /\ memo' = [call |-> convCall, unit |-> distanceUnit, language |-> language]
    /\ UNCHANGED <<language, distanceUnit, convCall, storage, pendingEffects, documentLang>>
    /\ UNCHANGED <<engineVars, srvVars, pageVars, formVars, request, dashVars, routeVars,
                   otherVars>>

(***************************************************************************)
(* StatusEngine: the backend's evaluation of a task on retrieval.         *)
(***************************************************************************)
DUE_SOON_MILES_THRESHOLD == 500
DUE_SOON_DAYS_THRESHOLD  == 14

Date(y, m, d) == [y |-> y, m |-> m, d |-> d]

IsLeap(y) == (y % 4 = 0 /\ y % 100 # 0) \/ y % 400 = 0

DaysInMonth(y, m) ==
    IF m = 2 THEN (IF IsLeap(y) THEN 29 ELSE 28)
    ELSE IF m \in {4, 6, 9, 11} THEN 30 ELSE 31

\* Days of the year before the first of month m.
RECURSIVE DaysBeforeMonth(_, _)
DaysBeforeMonth(y, m) ==
    IF m = 1 THEN 0 ELSE DaysBeforeMonth(y, m - 1) + DaysInMonth(y, m - 1)

\* Days from 0001-01-01 (day 1) to the date.
DayNumber(date) ==
    LET p == date.y - 1
    IN  365 * p + (p \div 4) - (p \div 100) + (p \div 400)
        + DaysBeforeMonth(date.y, date.m) + date.d

\* A mutant: the day of month is kept and overflows into the following month
\* (Jan 31 + 1 month = Mar 2), as a setMonth() does.
AddMonths_overflow(date, n) ==
    LET idx == date.y * 12 + (date.m - 1) + n
        y   == idx \div 12
        m   == (idx % 12) + 1
        dim == DaysInMonth(y, m)
    IN  IF date.d <= dim THEN Date(y, m, date.d)
        ELSE IF m = 12 THEN Date(y + 1, 1, date.d - dim)
        ELSE Date(y, m + 1, date.d - dim)

\* Calendar-month addition, the day clamped to the target month's last day.
AddMonths(date, n) ==
    LET idx == date.y * 12 + (date.m - 1) + n
        y   == idx \div 12
        m   == (idx % 12) + 1
        dim == DaysInMonth(y, m)
    IN  Date(y, m, IF date.d <= dim THEN date.d ELSE dim)

Classify(replacementRequested, milesRemaining, daysRemaining) ==
    IF replacementRequested THEN "replacement_requested"
    ELSE IF milesRemaining <= 0 \/ daysRemaining <= 0 THEN "overdue"
    ELSE IF milesRemaining <= DUE_SOON_MILES_THRESHOLD
            \/ daysRemaining <= DUE_SOON_DAYS_THRESHOLD THEN "due_soon"
    ELSE "good"

ValidationError == [error |-> "ValidationError"]
IsError(r) == "error" \in DOMAIN r

\* The stored fields of a task.
TaskRecord(lastMileage, lastDate, intervalMiles, intervalMonths, requested, reason) ==
    [last_performed_mileage |-> lastMileage, last_performed_date |-> lastDate,
     interval_miles |-> intervalMiles, interval_months |-> intervalMonths,
     replacement_requested |-> requested, replacement_reason |-> reason]

NoReason == <<>>

\* The task as returned to the caller: the stored fields and the derived ones.
StatusEngine(task, currentMileage, today) ==
    IF task.interval_miles <= 0 \/ task.interval_months <= 0 THEN ValidationError
    ELSE
      LET nextDueMileage == task.last_performed_mileage + task.interval_miles
          nextDueDate    == AddMonths(task.last_performed_date, task.interval_months)
          milesRemaining == nextDueMileage - currentMileage
          daysRemaining  == DayNumber(nextDueDate) - DayNumber(today)
      IN  [last_performed_mileage |-> task.last_performed_mileage,
           last_performed_date    |-> task.last_performed_date,
           interval_miles         |-> task.interval_miles,
           interval_months        |-> task.interval_months,
           replacement_requested  |-> task.replacement_requested,
           replacement_reason     |-> task.replacement_reason,
           next_due_mileage       |-> nextDueMileage,
           next_due_date          |-> nextDueDate,
           status |-> Classify(task.replacement_requested, milesRemaining, daysRemaining)]

(***************************************************************************)
(* The task card of CarDetail and the lists derived from task.status.      *)
(***************************************************************************)
isReplacementRequested(task) ==
    task.status = "replacement_requested" \/ task.replacement_requested

\* A mutant: the badge goes by task.status alone and knows three statuses.
BadgeLabel_statusOnly(task) ==
    IF task.status = "overdue" THEN "Overdue"
    ELSE IF task.status = "due_soon" THEN "Due Soon"
    ELSE "Good"

\* A mutant: the overdue and due-soon labels swapped.
BadgeLabel_swapped(task) ==
    IF isReplacementRequested(task) THEN "Needs Replacement"
    ELSE IF task.status = "overdue" THEN "Due Soon"
    ELSE IF task.status = "due_soon" THEN "Overdue"
    ELSE "Good"

BadgeLabel(task) ==
    IF isReplacementRequested(task) THEN "Needs Replacement"
    ELSE IF task.status = "overdue" THEN "Overdue"
    ELSE IF task.status = "due_soon" THEN "Due Soon"
    ELSE "Good"

StatusNames == {"good", "due_soon", "overdue", "replacement_requested"}

\* A mutant: the counts know three statuses.
CountedAs_threeOnly(task) ==
    IF task.status \in {"good", "due_soon", "overdue"} THEN task.status ELSE "good"

\* getStatusCounts: the category a task is counted in.
CountedAs(task) == IF task.status \in StatusNames THEN task.status ELSE "good"

\* A mutant: the filter keeps the due-soon tasks only.
IsUpcoming_soonOnly(task) == task.status = "due_soon"

\* Dashboard upcomingTasks: the filter on task.status.
IsUpcoming(task) == task.status = "due_soon" \/ task.status = "overdue"

\* The badge of a task in the Dashboard's Upcoming Maintenance card.
UpcomingBadge(task) == IF task.status = "overdue" THEN "Overdue" ELSE "Due Soon"

(***************************************************************************)
(* Inputs of the status engine.                                            *)
(***************************************************************************)
NoResult == [none |-> TRUE]
IsResult(r) == "status" \in DOMAIN r

ValidDate(y, m, d) == m \in 1..12 /\ d >= 1 /\ d <= DaysInMonth(y, m)

\* Next-due inputs: the ends of the months of a common and a leap year.
DueYears   == {2023, 2024}
DueDays    == {1, 15, 28, 29, 30, 31}
DueDates   == {Date(y, m, d) : <<y, m, d>> \in
                  {t \in DueYears \X (1..12) \X DueDays : ValidDate(t[1], t[2], t[3])}}
DueInputs  ==
    {[task |-> TaskRecord(lm, ld, im, imo, FALSE, NoReason),
      current_mileage |-> 54600, today |-> Date(2024, 6, 1)] :
        <<lm, ld, im, imo>> \in {0, 50000} \X DueDates \X {0, 1, 5000}
                                 \X (0..MaxIntervalMonths)}

\* Status inputs: odometer readings around the key mileages, every day of a window.
KeyMileages     == {0, 5000, 50000, 54500, 55000}
CurrentMileages == {k + s : <<k, s>> \in
                       {t \in KeyMileages \X ((0 - MileageSlack)..MileageSlack) :
                           t[1] + t[2] >= 0}}
                   \cup {54600, 55200}
TodayDates ==
    {Date(2024, m, d) : <<m, d>> \in
        {t \in (1..12) \X (1..31) :
            /\ ValidDate(2024, t[1], t[2])
            /\ DayNumber(Date(2024, t[1], t[2])) >= DayNumber(Date(2024, 1, 15))
            /\ DayNumber(Date(2024, t[1], t[2])) <= DayNumber(Date(2024, 8, 15))}}
StatusInputs ==
    {[task |-> TaskRecord(lm, ld, im, imo, rr, IF rr THEN <<"a">> ELSE NoReason),
      current_mileage |-> cm, today |-> td] :
        <<lm, ld, im, imo, rr, cm, td>> \in
            {0, 50000} \X {Date(2024, 1, 15), Date(2024, 1, 31)} \X {1, 5000} \X {1, 6}
            \X BOOLEAN \X CurrentMileages \X TodayDates}

EngineInputs == DueInputs \cup StatusInputs
IdleInput    == [task |-> TaskRecord(0, Date(2024, 1, 15), 5000, 6, FALSE, NoReason),
                 current_mileage |-> 0, today |-> Date(2024, 1, 15)]

\* Retrieval of a task: the backend evaluates it and returns it.
Retrieve ==
    /\ seOut = NoResult
    /\ seOut' = StatusEngine(seIn.task, seIn.current_mileage, seIn.today)
    /\ UNCHANGED <<seIn, unitVars, srvVars, pageVars, formVars, extVars>>

(***************************************************************************)
(* The backend's records and endpoints for one car.                        *)
(***************************************************************************)
TaskIds  == {1}                                 \* the task whose card is followed
NoId     == 0                                   \* null
Mileages == {500 * k : k \in 0..MaxMileageSteps}

\* The date of the session on the page.
Now      == Date(2024, 3, 1)

\* A reason is a text of blanks and letters.
ReasonChars == {" ", "a"}
Reasons     == UNION {[1..n -> ReasonChars] : n \in 0..MaxReasonLen}

\* A mutant: the endpoint accepts any mileage.
CompleteEndpoint_noCheck(task, mileage, now) ==
    TaskRecord(mileage, now, task.interval_miles, task.interval_months, FALSE, NoReason)

\* POST /maintenance/{id}/complete?mileage=: the task after completion, or the error.
CompleteEndpoint(task, mileage, now) ==
    IF mileage < 0 \/ mileage < task.last_performed_mileage THEN ValidationError
    ELSE TaskRecord(mileage, now, task.interval_miles, task.interval_months,
                    FALSE, NoReason)

\* POST /maintenance/{id}/request-replacement {reason}.
RequestReplacementEndpoint(task, reason) ==
    IF reason = <<>> THEN ValidationError
    ELSE [task EXCEPT !.replacement_requested = TRUE, !.replacement_reason = reason]

\* POST /maintenance/{id}/cancel-replacement.
CancelReplacementEndpoint(task) ==
    [task EXCEPT !.replacement_requested = FALSE, !.replacement_reason = NoReason]

\* GET /cars/{id} and GET /maintenance?car_id=: the car, and every task evaluated
\* against the car's mileage and the current date.
Response(stored, mileage, now) ==
    [car   |-> [current_mileage |-> mileage, license_plate |-> srvPlate],
     tasks |-> [id \in DOMAIN stored |-> StatusEngine(stored[id], mileage, now)]]

(***************************************************************************)
(* CarDetail: state setters and handlers.                                  *)
(***************************************************************************)
NoCar == [none |-> TRUE]
\* A request of the client: the endpoint and what it carries.
Request(url, body) == [url |-> url, body |-> body]
NoRequest == [url |-> "none"]
\* lastOp: the handler a step ran, on which task, how its request ended
\* ("blocked": none was sent; "failed": it did not reach the backend;
\* "rejected": the backend refused it; "ok") and the value the user had entered.
Op(op, task, outcome, arg) == [op |-> op, task |-> task, outcome |-> outcome, arg |-> arg]
NoOp == Op("none", NoId, "ok", 0)

\* String.prototype.trim on a sequence of characters.
RECURSIVE TrimLeft(_)
TrimLeft(text) == IF text # <<>> /\ Head(text) = " " THEN TrimLeft(Tail(text)) ELSE text

RECURSIVE TrimRight(_)
TrimRight(text) ==
    IF text # <<>> /\ text[Len(text)] = " "
    THEN TrimRight(SubSeq(text, 1, Len(text) - 1)) ELSE text

trim(text) == TrimRight(TrimLeft(text))

\* The add-task form as useState and the reset of handleAddTask set it.
DefaultTask == [task_type |-> "", last_performed_mileage |-> 0,
                interval_miles |-> 5000, interval_months |-> 6]

\* The page is past its spinner and shows the car.
Rendered == ~loading /\ car # NoCar

\* The dialogs of the page are modal: while one is open the triggers of the
\* others cannot be reached.
NoDialogOpen ==
    ~addTaskOpen /\ ~addMileageOpen /\ completeTaskOpen = NoId /\ ~editCarOpen

\* fetchCarData is called: its three GETs are answered from the records as
\* they are, and the response is on its way.
fetchCarData(stored, mileage, now) == inflight \cup {Response(stored, mileage, now)}

\* The await of a fetchCarData call resumes with its response; the calls in
\* flight resolve in any order.
FetchResolve ==
    \E response \in inflight :
        /\ car' = response.car
        /\ tasks' = response.tasks
        /\ loading' = FALSE
        /\ inflight' = inflight \ {response}
        /\ editCar' = response.car
        /\ newMileage' = response.car.current_mileage
    /\ lastOp' = NoOp
    /\ request' = NoRequest
    /\ UNCHANGED <<completeTaskOpen, completeMileage, replacementOpen, replacementReason>>
    /\ UNCHANGED <<addTaskOpen, newTask, addMileageOpen>>
    /\ UNCHANGED <<srvVars, unitVars, engineVars, dashVars, prefVars, routeVars>>
    /\ UNCHANGED <<chatVars, regVars, listVars, geoVars, srvPlate, editCarOpen>>

\* The complete dialog of a task card: onOpenChange.
setCompleteTaskOpen(id) ==
    /\ Rendered
    /\ (id # NoId /\ completeTaskOpen = NoId) => NoDialogOpen
    /\ id \in DOMAIN tasks \cup {NoId}
    /\ id # completeTaskOpen
    /\ completeTaskOpen' = id
    /\ lastOp' = NoOp
    /\ UNCHANGED <<car, tasks, loading, completeMileage, replacementOpen,
                   replacementReason, inflight>>
    /\ request' = NoRequest
    /\ UNCHANGED <<srvVars, unitVars, engineVars, formVars, offCarDetail>>

\* The dialog's mileage input: setCompleteMileage(parseInt(e.target.value) || 0).
setCompleteMileage(typed) ==
    /\ Rendered
    /\ completeTaskOpen # NoId
    /\ typed # completeMileage
    /\ completeMileage' = typed
    /\ lastOp' = NoOp
    /\ UNCHANGED <<car, tasks, loading, completeTaskOpen, replacementOpen,
                   replacementReason, inflight>>
    /\ request' = NoRequest
    /\ UNCHANGED <<srvVars, unitVars, engineVars, formVars, offCarDetail>>

\* A mutant: the request carries the car's mileage, not the one entered.
CompleteRequestMileage_car == car.current_mileage

\* The mileage in the query string of the complete request.
CompleteRequestMileage == completeMileage

\* handleCompleteTask(taskId), from the dialog's Mark Complete button. The
\* request fails to reach the backend, is rejected by it, or succeeds.
handleCompleteTask(taskId) ==
    /\ Rendered
    /\ completeTaskOpen = taskId
    /\ taskId # NoId
    /\ Cardinality(inflight) < MaxInflight
    /\ request' = Request("/maintenance/id/complete", CompleteRequestMileage)
    /\ \E reached \in BOOLEAN :
         LET result == IF taskId \in DOMAIN srvTasks
                       THEN CompleteEndpoint(srvTasks[taskId], CompleteRequestMileage, Now)
                       ELSE ValidationError
         IN  IF reached /\ ~IsError(result)
             THEN /\ srvTasks' = [srvTasks EXCEPT ![taskId] = result]
                  /\ completeTaskOpen' = NoId
                  /\ inflight' = fetchCarData(srvTasks', srvMileage, Now)
                  /\ lastOp' = Op("handleCompleteTask", taskId, "ok", completeMileage)
             ELSE /\ UNCHANGED <<srvTasks, completeTaskOpen, inflight>>
                  /\ lastOp' = Op("handleCompleteTask", taskId,
                                  IF reached THEN "rejected" ELSE "failed", completeMileage)
    /\ UNCHANGED <<car, tasks, loading, completeMileage, replacementOpen, replacementReason>>
    /\ UNCHANGED <<srvMileage, unitVars, engineVars, formVars, offCarDetail>>

setReplacementOpen(id) ==
    /\ Rendered
    /\ id \in DOMAIN tasks \cup {NoId}
    /\ id # replacementOpen
    /\ replacementOpen' = id
    /\ lastOp' = NoOp
    /\ UNCHANGED <<car, tasks, loading, completeTaskOpen, completeMileage,
                   replacementReason, inflight>>
    /\ request' = NoRequest
    /\ UNCHANGED <<srvVars, unitVars, engineVars, formVars, offCarDetail>>

setReplacementReason(text) ==
    /\ Rendered
    /\ text # replacementReason
    /\ replacementReason' = text
    /\ lastOp' = NoOp
    /\ UNCHANGED <<car, tasks, loading, completeTaskOpen, completeMileage,
                   replacementOpen, inflight>>
    /\ request' = NoRequest
    /\ UNCHANGED <<srvVars, unitVars, engineVars, formVars, offCarDetail>>

\* A mutant: the guard tests the reason without trimming it.
ReasonMissing_noTrim == replacementReason = <<>>

\* The guard of handleRequestReplacement: !replacementReason.trim().
ReasonMissing == trim(replacementReason) = <<>>

\* handleRequestReplacement(taskId).
handleRequestReplacement(taskId) ==
    /\ Rendered
    /\ taskId \in DOMAIN tasks
    /\ IF ReasonMissing
       THEN /\ lastOp' = Op("handleRequestReplacement", taskId, "blocked", replacementReason)
            /\ request' = NoRequest
            /\ UNCHANGED <<srvTasks, replacementOpen, replacementReason, inflight>>
       ELSE \E reached \in {r \in BOOLEAN : Cardinality(inflight) < MaxInflight} :
            /\ request' = Request("/maintenance/id/request-replacement", replacementReason)
            /\
              LET result == IF taskId \in DOMAIN srvTasks
                            THEN RequestReplacementEndpoint(srvTasks[taskId], replacementReason)
                            ELSE ValidationError
              IN  IF reached /\ ~IsError(result)
                  THEN /\ srvTasks' = [srvTasks EXCEPT ![taskId] = result]
                       /\ replacementOpen' = NoId
                       /\ replacementReason' = <<>>
                       /\ inflight' = fetchCarData(srvTasks', srvMileage, Now)
                       /\ lastOp' = Op("handleRequestReplacement", taskId, "ok",
                                       replacementReason)
                  ELSE /\ UNCHANGED <<srvTasks, replacementOpen, replacementReason, inflight>>
                       /\ lastOp' = Op("handleRequestReplacement", taskId,
                                       IF reached THEN "rejected" ELSE "failed",
                                       replacementReason)
    /\ UNCHANGED <<car, tasks, loading, completeTaskOpen, completeMileage>>
    /\ UNCHANGED <<srvMileage, unitVars, engineVars, formVars, offCarDetail>>

\* A mutant: the handler posts to the complete endpoint of the handler above it.
CancelRequest_complete(task) ==
    CompleteEndpoint_noCheck(task, completeMileage, Now)

\* The request of handleCancelReplacement and what the backend makes of it.
CancelRequest(task) == CancelReplacementEndpoint(task)

\* handleCancelReplacement(taskId).
handleCancelReplacement(taskId) ==
    /\ Rendered
    /\ taskId \in DOMAIN tasks
    /\ Cardinality(inflight) < MaxInflight
    /\ request' = Request("/maintenance/id/cancel-replacement", <<>>)
    /\ \E reached \in BOOLEAN :
         IF reached /\ taskId \in DOMAIN srvTasks
         THEN /\ srvTasks' = [srvTasks EXCEPT ![taskId] = CancelRequest(srvTasks[taskId])]
              /\ inflight' = fetchCarData(srvTasks', srvMileage, Now)
              /\ lastOp' = Op("handleCancelReplacement", taskId, "ok", 0)
         ELSE /\ UNCHANGED <<srvTasks, inflight>>
              /\ lastOp' = Op("handleCancelReplacement", taskId,
                              IF reached THEN "rejected" ELSE "failed", 0)
    /\ UNCHANGED <<car, tasks, loading, completeTaskOpen, completeMileage,
                   replacementOpen, replacementReason>>
    /\ UNCHANGED <<srvMileage, unitVars, engineVars, formVars, offCarDetail>>

(***************************************************************************)
(* The number inputs of the forms: parseInt(e.target.value) || 0.          *)
(***************************************************************************)
NaN == [t |-> "NaN"]

IsDigitChar(c) == c \in {Digit(d) : d \in 0..9}
DigitValue(c)  == CHOOSE d \in 0..9 : Digit(d) = c

\* The longest prefix of digits of a text.
RECURSIVE LeadingDigits(_)
LeadingDigits(text) ==
    IF text # <<>> /\ IsDigitChar(Head(text))
    THEN <<Head(text)>> \o LeadingDigits(Tail(text)) ELSE <<>>

\* The number a sequence of digits writes.
RECURSIVE DigitsValue(_)
DigitsValue(ds) ==
    IF ds = <<>> THEN 0
    ELSE 10 * DigitsValue(SubSeq(ds, 1, Len(ds) - 1)) + DigitValue(ds[Len(ds)])

\* parseInt(text): leading blanks are skipped, a sign is read, then the digits
\* up to the first other character; NaN when there is no digit.
parseInt(text) ==
    LET t    == TrimLeft(text)
        sign == IF t # <<>> /\ Head(t) \in {"-", "+"} THEN Head(t) ELSE ""
        body == IF sign = "" THEN t ELSE Tail(t)
        ds   == LeadingDigits(body)
    IN  IF ds = <<>> THEN NaN
        ELSE Num(IF sign = "-" THEN 0 - DigitsValue(ds) ELSE DigitsValue(ds))

\* A mutant: a text that is no number, or zero, becomes the default interval.
OrZero_default(v) == IF IsNum(v) /\ v.n # 0 THEN v.n ELSE 5000

\* v || 0 for the result of parseInt: NaN and 0 (and -0) are falsy.
OrZero(v) == IF IsNum(v) /\ v.n # 0 THEN v.n ELSE 0

\* What e.target.value of an <input type="number"> holds after the user typed:
\* the text of a number, or the empty text when the entry is no number.
TypedTexts == { <<>>, <<"7">>, <<"-", "7">>, <<"7", ".", "5">> }

(***************************************************************************)
(* CarDetail: the add-task and log-mileage dialogs.                        *)
(***************************************************************************)
\* maintenanceTypes: the default interval of each task type.
maintenanceTypes ==
    [value \in {"oil_change", "air_filter", "cabin_filter", "coolant", "brakes",
                "brake_fluid", "battery", "tire_rotation", "transmission", "spark_plugs"} |->
       CASE value = "oil_change"    -> [defaultMiles |-> 5000,  defaultMonths |-> 6]
         [] value = "air_filter"    -> [defaultMiles |-> 15000, defaultMonths |-> 12]
         [] value = "cabin_filter"  -> [defaultMiles |-> 15000, defaultMonths |-> 12]
         [] value = "coolant"       -> [defaultMiles |-> 30000, defaultMonths |-> 24]
         [] value = "brakes"        -> [defaultMiles |-> 30000, defaultMonths |-> 24]
         [] value = "brake_fluid"   -> [defaultMiles |-> 30000, defaultMonths |-> 24]
         [] value = "battery"       -> [defaultMiles |-> 50000, defaultMonths |-> 36]
         [] value = "tire_rotation" -> [defaultMiles |-> 7500,  defaultMonths |-> 6]
         [] value = "transmission"  -> [defaultMiles |-> 60000, defaultMonths |-> 48]
         [] value = "spark_plugs"   -> [defaultMiles |-> 60000, defaultMonths |-> 48]]

\* The task types the user of the model selects.
SelectedTypes == {"oil_change", "battery"}

\* The id the backend gives the task the model sees created.
NewTaskIds == {2}

\* Dialog onOpenChange of the add-task dialog.
setAddTaskOpen(open) ==
    /\ Rendered
    /\ open => NoDialogOpen
    /\ open # addTaskOpen
    /\ addTaskOpen' = open
    /\ lastOp' = NoOp
    /\ request' = NoRequest
    /\ UNCHANGED <<newTask, addMileageOpen, newMileage>>
    /\ UNCHANGED <<car, tasks, loading, completeTaskOpen, completeMileage,
                   replacementOpen, replacementReason, inflight>>
    /\ UNCHANGED <<srvVars, unitVars, engineVars, offCarDetail>>

\* A field of the add-task form is typed into:
\* setNewTask({...newTask, [field]: parseInt(e.target.value) || 0}).
setNewTaskNumber(field, text) ==
    /\ Rendered
    /\ addTaskOpen
    /\ newTask' = [newTask EXCEPT ![field] = OrZero(parseInt(text))]
    /\ lastOp' = NoOp
    /\ request' = NoRequest
    /\ UNCHANGED <<addTaskOpen, addMileageOpen, newMileage>>
    /\ UNCHANGED <<car, tasks, loading, completeTaskOpen, completeMileage,
                   replacementOpen, replacementReason, inflight>>
    /\ UNCHANGED <<srvVars, unitVars, engineVars, offCarDetail>>

\* handleTaskTypeChange(value), from the Select of the add-task form.
handleTaskTypeChange(value) ==
    /\ Rendered
    /\ addTaskOpen
    /\ LET found == value \in DOMAIN maintenanceTypes
       IN  newTask' = [newTask EXCEPT
               !.task_type = value,
               !.interval_miles =
                    IF found /\ maintenanceTypes[value].defaultMiles # 0
                    THEN maintenanceTypes[value].defaultMiles ELSE 5000,
               !.interval_months =
                    IF found /\ maintenanceTypes[value].defaultMonths # 0
                    THEN maintenanceTypes[value].defaultMonths ELSE 6]
    /\ lastOp' = NoOp
    /\ request' = NoRequest
    /\ UNCHANGED <<addTaskOpen, addMileageOpen, newMileage>>
    /\ UNCHANGED <<car, tasks, loading, completeTaskOpen, completeMileage,
                   replacementOpen, replacementReason, inflight>>
    /\ UNCHANGED <<srvVars, unitVars, engineVars, offCarDetail>>

\* A mutant: the form sends the entry converted to the unit of the preference.
MileageBody_converted(mileage) == convertDistance(Num(mileage), distanceUnit)

\* The mileage a form puts in the body of its request: the number in its field.
MileageBody(mileage) == mileage

\* POST /maintenance: the record of the new task, or the error.
CreateTaskEndpoint(body, date) ==
    IF body.interval_miles <= 0 \/ body.interval_months <= 0
       \/ body.last_performed_mileage < 0
    THEN ValidationError
    ELSE TaskRecord(body.last_performed_mileage, date, body.interval_miles,
                    body.interval_months, FALSE, NoReason)

\* The body of the request of handleAddTask: {car_id, ...newTask, last_performed_date}.
AddTaskBody ==
    [newTask EXCEPT !.last_performed_mileage = MileageBody(newTask.last_performed_mileage)]

\* handleAddTask, from the submit of the add-task form.
handleAddTask ==
    /\ Rendered
    /\ addTaskOpen
    /\ Cardinality(inflight) < MaxInflight
    /\ request' = Request("/maintenance", AddTaskBody)
    /\ \E reached \in BOOLEAN, id \in NewTaskIds :
         LET result == CreateTaskEndpoint(AddTaskBody, Now)
         IN  IF reached /\ ~IsError(result) /\ id \notin DOMAIN srvTasks
             THEN /\ srvTasks' = [i \in DOMAIN srvTasks \cup {id} |->
                                    IF i = id THEN result ELSE srvTasks[i]]
                  /\ addTaskOpen' = FALSE
                  /\ newTask' = DefaultTask
                  /\ inflight' = fetchCarData(srvTasks', srvMileage, Now)
                  /\ lastOp' = Op("handleAddTask", id, "ok", newTask)
             ELSE /\ UNCHANGED <<srvTasks, addTaskOpen, newTask, inflight>>
                  /\ lastOp' = Op("handleAddTask", NoId,
                                  IF reached THEN "rejected" ELSE "failed", newTask)
    /\ UNCHANGED <<addMileageOpen, newMileage>>
    /\ UNCHANGED <<car, tasks, loading, completeTaskOpen, completeMileage,
                   replacementOpen, replacementReason>>
    /\ UNCHANGED <<srvMileage, unitVars, engineVars, offCarDetail>>

\* Dialog onOpenChange of the log-mileage dialog.
setAddMileageOpen(open) ==
    /\ Rendered
    /\ open => NoDialogOpen
    /\ open # addMileageOpen
    /\ addMileageOpen' = open
    /\ lastOp' = NoOp
    /\ request' = NoRequest
    /\ UNCHANGED <<addTaskOpen, newTask, newMileage>>
    /\ UNCHANGED <<car, tasks, loading, completeTaskOpen, completeMileage,
                   replacementOpen, replacementReason, inflight>>
    /\ UNCHANGED <<srvVars, unitVars, engineVars, offCarDetail>>

\* The mileage input of the log-mileage dialog:
\* setNewMileage({...newMileage, mileage: parseInt(e.target.value) || 0}).
setNewMileage(text) ==
    /\ Rendered
    /\ addMileageOpen
    /\ newMileage' = OrZero(parseInt(text))
    /\ lastOp' = NoOp
    /\ request' = NoRequest
    /\ UNCHANGED <<addTaskOpen, newTask, addMileageOpen>>
    /\ UNCHANGED <<car, tasks, loading, completeTaskOpen, completeMileage,
                   replacementOpen, replacementReason, inflight>>
    /\ UNCHANGED <<srvVars, unitVars, engineVars, offCarDetail>>

\* The mileage input of the complete dialog, typed into:
\* setCompleteMileage(parseInt(e.target.value) || 0).
typeCompleteMileage(text) ==
    /\ setCompleteMileage(OrZero(parseInt(text)))

\* POST /mileage: the car's mileage after the entry is logged, or the error.
LogMileageEndpoint(mileage) ==
    IF mileage < 0 THEN ValidationError ELSE [current_mileage |-> mileage]

\* handleAddMileage, from the submit of the log-mileage form.
handleAddMileage ==
    /\ Rendered
    /\ addMileageOpen
    /\ Cardinality(inflight) < MaxInflight
    /\ request' = Request("/mileage", MileageBody(newMileage))
    /\ \E reached \in BOOLEAN :
         LET result == LogMileageEndpoint(MileageBody(newMileage))
         IN  IF reached /\ ~IsError(result)
             THEN /\ srvMileage' = result.current_mileage
                  /\ addMileageOpen' = FALSE
                  /\ inflight' = fetchCarData(srvTasks, srvMileage', Now)
                  /\ lastOp' = Op("handleAddMileage", NoId, "ok", newMileage)
             ELSE /\ UNCHANGED <<srvMileage, addMileageOpen, inflight>>
                  /\ lastOp' = Op("handleAddMileage", NoId,
                                  IF reached THEN "rejected" ELSE "failed", newMileage)
    /\ UNCHANGED <<addTaskOpen, newTask, newMileage>>
    /\ UNCHANGED <<car, tasks, loading, completeTaskOpen, completeMileage,
                   replacementOpen, replacementReason>>
    /\ UNCHANGED <<srvTasks, unitVars, engineVars, offCarDetail>>

(***************************************************************************)
(* Dashboard: the add-vehicle dialog and its image.                        *)
(***************************************************************************)
\* An image: none, the text of a URL, or the data URL a FileReader made of a file.
NoPreview == [none |-> TRUE]
Url(text) == [url |-> text]
DataUrl(file) == [data |-> file]

\* The add-vehicle form as useState and the reset of handleAddCar set it.
DefaultCar == [current_mileage |-> 0, image_url |-> Url("")]

\* The id the backend gives the car the model sees added.
NewCarIds == {2}

\* GET /cars: the car of CarDetail and the cars added since.
DashResponse(mileage, added) ==
    [cars |-> [id \in {1} \cup DOMAIN added |->
                 IF id = 1 THEN [current_mileage |-> mileage, image_url |-> Url("")]
                 ELSE added[id]]]

\* The Dashboard is past its spinner.
DashRendered == ~dashLoading

\* fetchData is called: its GETs are answered from the records as they are.
fetchData(mileage, added) == dashInflight \cup {DashResponse(mileage, added)}

\* The await of a fetchData call resumes with its response.
DashFetchResolve ==
    \E response \in dashInflight :
        /\ cars' = response.cars
        /\ dashLoading' = FALSE
        /\ dashInflight' = dashInflight \ {response}
    /\ lastOp' = NoOp
    /\ request' = NoRequest
    /\ UNCHANGED <<srvCars, addCarOpen, newCar, imagePreview, imageMethod, reading>>
    /\ UNCHANGED <<srvMileage, unitVars, engineVars, offDashboard>>

\* Dialog onOpenChange of the add-vehicle dialog, and the Add Vehicle buttons.
setAddCarOpen(open) ==
    /\ DashRendered
    /\ open # addCarOpen
    /\ addCarOpen' = open
    /\ lastOp' = NoOp
    /\ request' = NoRequest
    /\ UNCHANGED <<srvCars, dashLoading, cars, dashInflight, newCar, imagePreview,
                   imageMethod, reading>>
    /\ UNCHANGED <<srvMileage, unitVars, engineVars, offDashboard>>

\* The mileage input of the add-vehicle form:
\* setNewCar({...newCar, current_mileage: parseInt(e.target.value) || 0}).
setNewCarMileage(text) ==
    /\ DashRendered
    /\ addCarOpen
    /\ newCar' = [newCar EXCEPT !.current_mileage = OrZero(parseInt(text))]
    /\ lastOp' = NoOp
    /\ request' = NoRequest
    /\ UNCHANGED <<srvCars, dashLoading, cars, dashInflight, addCarOpen, imagePreview,
                   imageMethod, reading>>
    /\ UNCHANGED <<srvMileage, unitVars, engineVars, offDashboard>>

\* POST /cars: the record of the new car, or the error.
AddCarEndpoint(carData) ==
    IF carData.current_mileage < 0 THEN ValidationError ELSE carData

\* The body of the request of handleAddCar.
AddCarBody ==
    [current_mileage |-> MileageBody(newCar.current_mileage),
     image_url |-> IF imagePreview # NoPreview /\ imageMethod = "upload"
                   THEN imagePreview ELSE newCar.image_url]

\* handleAddCar, from the submit of the add-vehicle form.
handleAddCar ==
    /\ DashRendered
    /\ addCarOpen
    /\ Cardinality(dashInflight) < MaxInflight
    /\ request' = Request("/cars", AddCarBody)
    /\ \E reached \in BOOLEAN, id \in NewCarIds :
         LET result == AddCarEndpoint(AddCarBody)
         IN  IF reached /\ ~IsError(result) /\ id \notin DOMAIN srvCars
             THEN /\ srvCars' = [i \in DOMAIN srvCars \cup {id} |->
                                   IF i = id THEN result ELSE srvCars[i]]
                  /\ addCarOpen' = FALSE
                  /\ newCar' = DefaultCar
                  /\ imagePreview' = NoPreview
                  /\ imageMethod' = "upload"
                  /\ dashInflight' = fetchData(srvMileage, srvCars')
                  /\ lastOp' = Op("handleAddCar", id, "ok", newCar.current_mileage)
             ELSE /\ UNCHANGED <<srvCars, addCarOpen, newCar, imagePreview, imageMethod,
                                 dashInflight>>
                  /\ lastOp' = Op("handleAddCar", NoId,
                                  IF reached THEN "rejected" ELSE "failed",
                                  newCar.current_mileage)
    /\ UNCHANGED <<dashLoading, cars, reading>>
    /\ UNCHANGED <<srvMileage, unitVars, engineVars, offDashboard>>

(***************************************************************************)
(* Dashboard: the image of the add-vehicle form.                           *)
(***************************************************************************)
\* The size above which handleImageUpload refuses a file.
MaxImageBytes == 5 * 1024 * 1024

\* e.target.files[0]: a file of some size, or none selected.
File(name, size) == [name |-> name, size |-> size]
NoFile     == [name |-> "", size |-> 0]
ImageSizes == {1024, MaxImageBytes - 1, MaxImageBytes, MaxImageBytes + 1}
Files      == {File("car.png", size) : size \in ImageSizes}
ImageUrls  == {"", "https://img/car.png"}

\* handleImageUpload: a file over the limit raises the toast and is left
\* alone; any other file is handed to a FileReader.
handleImageUpload(file) ==
    /\ DashRendered
    /\ addCarOpen
    /\ IF file = NoFile
       THEN /\ lastOp' = NoOp
            /\ UNCHANGED reading
       ELSE IF file.size > MaxImageBytes
       THEN /\ lastOp' = Op("handleImageUpload", NoId, "Image must be less than 5MB",
                            file.size)
            /\ UNCHANGED reading
       ELSE /\ lastOp' = Op("handleImageUpload", NoId, "readAsDataURL", file.size)
            /\ reading' = reading \cup {file}
    /\ request' = NoRequest
    /\ UNCHANGED <<srvCars, dashLoading, cars, dashInflight, addCarOpen, newCar,
                   imagePreview, imageMethod>>
    /\ UNCHANGED <<srvMileage, unitVars, engineVars, offDashboard>>

\* reader.onloadend: setImagePreview(reader.result), the data URL of the
\* file, or null when the read failed.
ReadEnd(file, loaded) ==
    /\ file \in reading
    /\ reading' = reading \ {file}
    /\ imagePreview' = IF loaded THEN DataUrl(file) ELSE NoPreview
    /\ lastOp' = NoOp
    /\ request' = NoRequest
    /\ UNCHANGED <<srvCars, dashLoading, cars, dashInflight, addCarOpen, newCar,
                   imageMethod>>
    /\ UNCHANGED <<srvMileage, unitVars, engineVars, offDashboard>>

handleImageUrlChange(url) ==
    /\ DashRendered
    /\ addCarOpen
    /\ newCar' = [newCar EXCEPT !.image_url = Url(url)]
    /\ imagePreview' = IF url # "" THEN Url(url) ELSE NoPreview
    /\ lastOp' = NoOp
    /\ request' = NoRequest
    /\ UNCHANGED <<srvCars, dashLoading, cars, dashInflight, addCarOpen, imageMethod,
                   reading>>
    /\ UNCHANGED <<srvMileage, unitVars, engineVars, offDashboard>>

clearImage ==
    /\ DashRendered
    /\ addCarOpen
    /\ imagePreview' = NoPreview
    /\ newCar' = [newCar EXCEPT !.image_url = Url("")]
    /\ lastOp' = NoOp
    /\ request' = NoRequest
    /\ UNCHANGED <<srvCars, dashLoading, cars, dashInflight, addCarOpen, imageMethod,
                   reading>>
    /\ UNCHANGED <<srvMileage, unitVars, engineVars, offDashboard>>

setImageMethod(method) ==
    /\ DashRendered
    /\ addCarOpen
    /\ method # imageMethod
    /\ imageMethod' = method
    /\ lastOp' = NoOp
    /\ request' = NoRequest
    /\ UNCHANGED <<srvCars, dashLoading, cars, dashInflight, addCarOpen, newCar,
                   imagePreview, reading>>
    /\ UNCHANGED <<srvMileage, unitVars, engineVars, offDashboard>>

(***************************************************************************)
(* CarDetail: the carId of the route.                                      *)
(***************************************************************************)
\* useParams().carId at a location of cars/:carId.
CarIdOf(path) == IF path = "/cars/1" THEN 1 ELSE 2

\* The records of the second car: no task, and a mileage of its own.
OtherCarMileage == 250

\* What the three GETs of fetchCarData return for a car as the records are.
ServerView(id, stored, mileage) ==
    IF id = 1 THEN Response(stored, mileage, Now)
    ELSE Response(<<>>, OtherCarMileage, Now)

\* The location changes from one car's page to another's while CarDetail
\* stays mounted: the state of the page is kept, and the effect on [carId]
\* calls fetchCarData for the new car. The fetch of the effect may be in
\* flight beside those of the handlers.
RouteChange(path) ==
    /\ screen = Page("CarDetail")
    /\ path \in CarPaths
    /\ path # Location
    /\ Cardinality(inflight) <= MaxInflight
    /\ history' = [history EXCEPT ![Len(history)] = path]
    /\ screen' = Element(path, authLoading, user)
    /\ redirects' = 0
    /\ inflight' = inflight \cup {ServerView(CarIdOf(path), srvTasks, srvMileage)}
    /\ lastOp' = Op("RouteChange", NoId, "ok", CarIdOf(path))
    /\ request' = NoRequest
    /\ UNCHANGED <<car, tasks, loading, completeTaskOpen, completeMileage,
                   replacementOpen, replacementReason>>
    /\ UNCHANGED <<srvVars, unitVars, engineVars, formVars, dashVars, prefVars,
                   authLoading, user, otherVars>>

(***************************************************************************)
(* Dashboard: the 'Upcoming Maintenance' card.                             *)
(***************************************************************************)
MaxListLen == 3             \* tasks of the short task lists

\* slice(0, 5)
UpcomingLimit == 5

\* A task of GET /maintenance as the card reads it.
DashTask(id, status) == [id |-> id, status |-> status]
NotShown == [shown |-> FALSE, list |-> <<>>]
Shown(list) == [shown |-> TRUE, list |-> list]

\* Task lists: every short list of statuses, and long lists with more
\* upcoming tasks than the card shows.
StatusLists ==
    UNION {[1..n -> StatusNames] : n \in 0..MaxListLen}
    \cup { <<"due_soon", "overdue", "due_soon", "overdue", "due_soon", "overdue", "good">>,
           <<"due_soon", "overdue", "overdue", "overdue", "overdue", "overdue", "overdue">>,
           <<"overdue", "due_soon", "due_soon", "due_soon", "due_soon", "due_soon", "overdue">> }
TaskLists == {[i \in 1..Len(statuses) |-> DashTask(i, statuses[i])] : statuses \in StatusLists}

\* A mutant: the comparator puts the due-soon tasks first.
compare_dueSoonFirst(a, b) == IF a.status = "due_soon" THEN 0 - 1 ELSE 1

\* The comparator of the sort: (a, b) => (a.status === 'overdue' ? -1 : 1).
compare(a, b) == IF a.status = "overdue" THEN 0 - 1 ELSE 1

RECURSIVE Perms(_)
Perms(S) == IF S = {} THEN {<<>>}
            ELSE UNION {{<<x>> \o rest : rest \in Perms(S \ {x})} : x \in S}

\* Array.prototype.sort with a comparator that is not consistent returns an
\* order that depends on the engine. An engine puts x before y only on the
\* comparator's word: never where the comparator says, whichever of the two
\* it is asked about first, that y comes first.
MayPrecede(x, y) == ~(compare(y, x) < 0 /\ compare(x, y) > 0)

SortOutcomes(list) ==
    { [i \in 1..Len(list) |-> list[order[i]]] :
        order \in { o \in Perms(1..Len(list)) :
                      \A i, j \in 1..Len(list) :
                          i < j => MayPrecede(list[o[i]], list[o[j]]) } }

slice(list, limit) == SubSeq(list, 1, IF Len(list) < limit THEN Len(list) ELSE limit)

\* tasks.filter(...).sort(...).slice(0, 5): the lists a render may show.
UpcomingOutcomes(list) ==
    { slice(sorted, UpcomingLimit) : sorted \in SortOutcomes(SelectSeq(list, IsUpcoming)) }

\* What the two pages derive from their tasks, before a render has done so.
IdleLists ==
    /\ dashTasks = <<>>
    /\ upcomingTasks = NotShown
    /\ statusCounts = NotShown
    /\ badges = NotShown

\* The render of the Dashboard that follows the fetch computes upcomingTasks
\* from tasks.
RenderUpcoming ==
    /\ ~upcomingTasks.shown
    /\ \E list \in UpcomingOutcomes(dashTasks) : upcomingTasks' = Shown(list)
    /\ lastOp' = NoOp
    /\ request' = NoRequest
    /\ UNCHANGED <<dashTasks, statusCounts, badges>>
    /\ UNCHANGED <<appVars, chatVars, regVars, geoVars, editVars>>

(***************************************************************************)
(* CarDetail: the Health Status card and the badges of the task cards.     *)
(***************************************************************************)
\* getStatusCounts(): the count of each category over the tasks of the page.
getStatusCounts(list) ==
    [category \in StatusNames |->
        Cardinality({id \in DOMAIN list : CountedAs(list[id]) = category})]

\* The text of a category in the Health Status card and on a badge.
CategoryLabel(category) ==
    CASE category = "good"     -> "Good"
      [] category = "due_soon" -> "Due Soon"
      [] category = "overdue"  -> "Overdue"
      [] OTHER                 -> "Needs Replacement"

\* The rows of the card: the replacement row only with a count above 0.
HealthRows(counts) ==
    {category \in StatusNames :
        category = "replacement_requested" => counts[category] > 0}

\* The render of CarDetail that follows the fetch computes the counts and
\* the badge of every task card.
RenderHealth ==
    /\ Rendered
    /\ statusCounts = NotShown
    /\ statusCounts' = getStatusCounts(tasks)
    /\ badges' = [id \in DOMAIN tasks |-> BadgeLabel(tasks[id])]
    /\ lastOp' = NoOp
    /\ request' = NoRequest
    /\ UNCHANGED <<dashTasks, upcomingTasks>>
    /\ UNCHANGED <<appVars, chatVars, regVars, geoVars, editVars>>

(***************************************************************************)
(* AIMechanic: the chat.                                                   *)
(***************************************************************************)
MaxMessages == 5            \* messages of the transcript, the greeting included

Message(role, content) == [role |-> role, content |-> content]
Greeting == Message("assistant", "Hi! I'm AutoBot")
Apology  == Message("assistant", "I'm sorry, I encountered an error. Please try again.")
Reply    == Message("assistant", "response.data.response")

\* What is typed into the chat input: texts of blanks and letters.
ChatTexts == {<<>>, <<" ">>, <<"a">>, <<" ", "a">>}

\* The values a render of the page closes over.
ChatClosure == [input |-> chatInput, loading |-> chatLoading]

\* The chat as the component is mounted and rendered.
IdleChat ==
    /\ messages = <<Greeting>>
    /\ chatInput = <<>>
    /\ chatLoading = FALSE
    /\ chatView = ChatClosure
    /\ chatInflight = {}

\* React commits the render of the state as it is: the controls and the
\* handlers of the page are those of this render from now on.
ChatRender ==
    /\ chatView # ChatClosure
    /\ chatView' = ChatClosure
    /\ lastOp' = NoOp
    /\ request' = NoRequest
    /\ UNCHANGED <<messages, chatInput, chatLoading, chatInflight>>
    /\ UNCHANGED <<offChat>>

\* The quick prompts: buttons that stay enabled while loading.
QuickPrompts == {<<"a">>}

\* onChange of the chat input (disabled={loading}), and handleQuickPrompt.
setInput(text) ==
    /\ ~chatView.loading \/ text \in QuickPrompts
    /\ chatInput' = text
    /\ lastOp' = NoOp
    /\ request' = NoRequest
    /\ UNCHANGED <<messages, chatLoading, chatView, chatInflight>>
    /\ UNCHANGED <<offChat>>

\* The control is enabled in the committed render: the Enter key needs the
\* input enabled, the Send button is disabled={!input.trim() || loading}.
CanInvokeSend(control) ==
    IF control = "Enter" THEN ~chatView.loading
    ELSE trim(chatView.input) # <<>> /\ ~chatView.loading

\* handleSend, from handleKeyPress (Enter) or the Send button. Its input and
\* loading are those of the render the handler belongs to.
handleSend(control) ==
    /\ CanInvokeSend(control)
    /\ Len(messages) + Cardinality(chatInflight) + 2 <= MaxMessages
    /\ IF trim(chatView.input) = <<>> \/ chatView.loading
       THEN /\ lastOp' = Op("handleSend", NoId, "returned", 0)
            /\ request' = NoRequest
            /\ UNCHANGED <<messages, chatInput, chatLoading, chatInflight>>
       ELSE /\ chatInput' = <<>>
            /\ messages' = Append(messages, Message("user", trim(chatView.input)))
            /\ chatLoading' = TRUE
            /\ request' = Request("/chat", trim(chatView.input))
            /\ chatInflight' = chatInflight \cup {Len(messages')}
            /\ lastOp' = Op("handleSend", NoId, "sent", Len(messages'))
    /\ UNCHANGED <<chatView>>
    /\ UNCHANGED <<offChat>>

\* The await of a POST /chat resumes: the reply on success, the toast and the
\* apology on failure, and setLoading(false) in either case.
ChatSettle(sent, ok) ==
    /\ sent \in chatInflight
    /\ chatInflight' = chatInflight \ {sent}
    /\ messages' = Append(messages, IF ok THEN Reply ELSE Apology)
    /\ chatLoading' = FALSE
    /\ lastOp' = Op("handleSend", NoId, IF ok THEN "replied" ELSE "failed", sent)
    /\ request' = NoRequest
    /\ UNCHANGED <<chatInput, chatView>>
    /\ UNCHANGED <<offChat>>

(***************************************************************************)
(* Register: handleSubmit.                                                 *)
(***************************************************************************)
\* The least length of a password handleSubmit lets through.
MinPasswordLength == 6

\* Passwords of 5, 6 and 7 characters, two of them of the same length.
Passwords == { <<>>,
               <<"s", "e", "c", "r", "e">>,
               <<"s", "e", "c", "r", "e", "t">>,
               <<"s", "e", "c", "r", "e", "s">>,
               <<"s", "e", "c", "r", "e", "t", "s">> }

\* The values a render of the page closes over.
RegClosure == [password |-> password, confirmPassword |-> confirmPassword,
               loading |-> regLoading]

IdleRegister ==
    /\ password = <<>>
    /\ confirmPassword = <<>>
    /\ regLoading = FALSE
    /\ regView = RegClosure
    /\ regInflight = {}

RegisterShown == screen = Page("Register")

\* React commits the render of the state as it is.
RegRender ==
    /\ regView # RegClosure
    /\ regView' = RegClosure
    /\ lastOp' = NoOp
    /\ request' = NoRequest
    /\ UNCHANGED <<password, confirmPassword, regLoading, regInflight>>
    /\ UNCHANGED <<offRegister, routeVars>>

\* onChange of the password input.
setPassword(text) ==
    /\ RegisterShown
    /\ password' = text
    /\ lastOp' = NoOp
    /\ request' = NoRequest
    /\ UNCHANGED <<confirmPassword, regLoading, regView, regInflight>>
    /\ UNCHANGED <<offRegister, routeVars>>

\* onChange of the confirm-password input.
setConfirmPassword(text) ==
    /\ RegisterShown
    /\ confirmPassword' = text
    /\ lastOp' = NoOp
    /\ request' = NoRequest
    /\ UNCHANGED <<password, regLoading, regView, regInflight>>
    /\ UNCHANGED <<offRegister, routeVars>>

\* A mutant: the length check lets a password of five characters through.
PasswordProblem_five(pw, confirm) ==
    IF pw # confirm THEN "Passwords do not match"
    ELSE IF Len(pw) < 5 THEN "Password must be at least 6 characters"
    ELSE "none"

\* The checks of handleSubmit before setLoading(true): the toast it raises.
PasswordProblem(pw, confirm) ==
    IF pw # confirm THEN "Passwords do not match"
    ELSE IF Len(pw) < MinPasswordLength THEN "Password must be at least 6 characters"
    ELSE "none"

\* handleSubmit, from the submit of the form: the inputs are required and
\* the submit button is disabled={loading}. The passwords are those of the
\* render the handler belongs to.
handleSubmit ==
    /\ RegisterShown
    /\ ~regView.loading
    /\ regView.password # <<>>
    /\ regView.confirmPassword # <<>>
    /\ Cardinality(regInflight) < MaxInflight
    /\ LET problem == PasswordProblem(regView.password, regView.confirmPassword)
       IN  IF problem # "none"
           THEN /\ lastOp' = Op("handleSubmit", NoId, problem, 0)
                /\ request' = NoRequest
                /\ UNCHANGED <<regLoading, regInflight>>
           ELSE /\ regLoading' = TRUE
                /\ request' = Request("register", regView.password)
                /\ regInflight' = regInflight \cup {regView.password}
                /\ lastOp' = Op("handleSubmit", NoId, "register", 0)
    /\ UNCHANGED <<password, confirmPassword, regView>>
    /\ UNCHANGED <<offRegister, routeVars>>

\* The await of register(...) resumes: on success the toast and
\* navigate('/dashboard'), with the user the auth context now holds; on
\* failure the toast; setLoading(false) in either case.
RegisterSettle(sent, ok, userNow) ==
    /\ sent \in regInflight
    /\ regInflight' = regInflight \ {sent}
    /\ regLoading' = FALSE
    /\ request' = NoRequest
    /\ IF ok
       THEN /\ user' = userNow
            /\ history' = Append(history, "/dashboard")
            /\ screen' = Element("/dashboard", authLoading, userNow)
            /\ lastOp' = Op("handleSubmit", NoId, "registered", 0)
       ELSE /\ userNow = user
            /\ lastOp' = Op("handleSubmit", NoId, "failed", 0)
            /\ UNCHANGED <<user, history, screen>>
    /\ redirects' = 0
    /\ UNCHANGED <<password, confirmPassword, regView, authLoading>>
    /\ UNCHANGED <<offRegister>>

(***************************************************************************)
(* The distances the pages show.                                           *)
(***************************************************************************)
\* {value?.toLocaleString() || fallback} label, for a number on record.
MileageShown(value, label) == toLocaleString(value) \o " " \o label

\* CarDetail: the Current Mileage card.
CurrentMileageText == MileageShown(car.current_mileage, "mi")

\* CarDetail: the Last / Next / Every lines of a task card.
TaskLastText(task)  == MileageShown(task.last_performed_mileage, "mi")
TaskNextText(task)  == MileageShown(task.next_due_mileage, "mi")
TaskEveryText(task) == MileageShown(task.interval_miles, "mi")

\* Dashboard: the mileage line of a vehicle card.
CarCardMileageText(c) == MileageShown(c.current_mileage, "miles")

(***************************************************************************)
(* NearbyMechanics: the location of the browser and the status panel.      *)
(***************************************************************************)
NoLocation  == [none |-> TRUE]
NoError     == "null"
Unsupported == "Geolocation is not supported by your browser"
Unable      == "Unable to get your location. Please enable location services."
\* The positions the browser reports, and the texts of the search field.
Positions   == {[lat |-> 52, lng |-> 13], [lat |-> 48, lng |-> 2]}
Queries     == {"auto mechanic", "tire shop", ""}
\* quickSearches: the queries of two of the quick-search buttons, and that of
\* the roadside assistance button.
QuickSearches == {"oil change service near me", "brake repair shop near me",
                  "roadside assistance near me"}

\* The component as useState initialises it.
IdleGeo ==
    /\ location = NoLocation
    /\ geoLoading = FALSE
    /\ error = NoError
    /\ searchQuery = "auto mechanic"
    /\ geoSupported = TRUE
    /\ geoPending = 0

\* The Location Status panel: loading ? ... : location ? ... : error ? ... : null.
\* 'locationFound' carries the Refresh button, 'locationError' the Retry button.
StatusPanel ==
    IF geoLoading THEN "gettingLocation"
    ELSE IF location # NoLocation THEN "locationFound"
    ELSE IF error # NoError THEN "locationError"
    ELSE "none"

\* getLocation, from the Refresh or the Retry button.
getLocation ==
    /\ StatusPanel \in {"locationFound", "locationError"}
    /\ IF geoSupported
       THEN /\ geoLoading' = TRUE
            /\ error' = NoError
            /\ geoPending' = geoPending + 1
            /\ lastOp' = Op("getLocation", NoId, "pending", 0)
       ELSE /\ geoLoading' = FALSE
            /\ error' = Unsupported
            /\ geoPending' = geoPending
            /\ lastOp' = Op("getLocation", NoId, "failed", 0)
    /\ request' = NoRequest
    /\ UNCHANGED <<location, searchQuery, geoSupported>>
    /\ UNCHANGED <<appVars, chatVars, regVars, listVars, editVars>>

\* The success callback of getCurrentPosition.
PositionFound(position) ==
    /\ geoPending > 0
    /\ location' = position
    /\ geoLoading' = FALSE
    /\ geoPending' = geoPending - 1
    /\ lastOp' = Op("getLocation", NoId, "ok", 0)
    /\ request' = NoRequest
    /\ UNCHANGED <<error, searchQuery, geoSupported>>
    /\ UNCHANGED <<appVars, chatVars, regVars, listVars, editVars>>

\* The error callback of getCurrentPosition (denied, unavailable, timeout).
PositionFailed ==
    /\ geoPending > 0
    /\ error' = Unable
    /\ geoLoading' = FALSE
    /\ geoPending' = geoPending - 1
    /\ lastOp' = Op("getLocation", NoId, "failed", 0)
    /\ request' = NoRequest
    /\ UNCHANGED <<location, searchQuery, geoSupported>>
    /\ UNCHANGED <<appVars, chatVars, regVars, listVars, editVars>>

\* The search field: onChange.
setSearchQuery(query) ==
    /\ query # searchQuery
    /\ searchQuery' = query
    /\ lastOp' = NoOp
    /\ request' = NoRequest
    /\ UNCHANGED <<location, geoLoading, error, geoSupported, geoPending>>
    /\ UNCHANGED <<appVars, chatVars, regVars, listVars, editVars>>

\* openGoogleMaps, from the Search button (the text of the field) or a
\* quick-search button: the search opens around the location when there is one.
openGoogleMaps(query) ==
    /\ query \in {searchQuery} \cup QuickSearches
    /\ request' = Request("https://www.google.com/maps/search/",
                          [query |-> query, at |-> location])
    /\ lastOp' = Op("openGoogleMaps", NoId, "ok", 0)
    /\ UNCHANGED <<geoVars, appVars, chatVars, regVars, listVars, editVars>>

(***************************************************************************)
(* CarDetail: the edit dialog of the car.                                  *)
(***************************************************************************)
EmptyObject == <<>>
\* The texts the model types into the license plate field.
Plates == {"AB-1", "CD-2"}

IdleEdit ==
    /\ srvPlate = "AB-1"
    /\ editCarOpen = FALSE
    /\ editCar = EmptyObject

\* {...object, [field]: value}
Spread(object, field, value) ==
    [key \in DOMAIN object \cup {field} |-> IF key = field THEN value ELSE object[key]]

\* What CarDetail and its endpoints leave alone but for the edit dialog.
offEdit == <<dashVars, prefVars, routeVars, chatVars, regVars, listVars, geoVars>>

\* Dialog onOpenChange of the edit dialog.
setEditCarOpen(open) ==
    /\ Rendered
    /\ open => NoDialogOpen
    /\ open # editCarOpen
    /\ editCarOpen' = open
    /\ lastOp' = NoOp
    /\ request' = NoRequest
    /\ UNCHANGED <<srvPlate, editCar>>
    /\ UNCHANGED <<car, tasks, loading, completeTaskOpen, completeMileage,
                   replacementOpen, replacementReason, inflight>>
    /\ UNCHANGED <<srvVars, unitVars, engineVars, formVars, offEdit>>

\* The license plate field: setEditCar({ ...editCar, license_plate: e.target.value }).
setEditCar(plate) ==
    /\ Rendered
    /\ editCarOpen
    /\ editCar' = Spread(editCar, "license_plate", plate)
    /\ editCar' # editCar
    /\ lastOp' = NoOp
    /\ request' = NoRequest
    /\ UNCHANGED <<srvPlate, editCarOpen>>
    /\ UNCHANGED <<car, tasks, loading, completeTaskOpen, completeMileage,
                   replacementOpen, replacementReason, inflight>>
    /\ UNCHANGED <<srvVars, unitVars, engineVars, formVars, offEdit>>

\* PUT /cars/{id}: the plate the backend stores for the car.
UpdateCarEndpoint(body) == body.license_plate

\* A mutant: the dialog closes whether or not the request went through.
handleUpdateCar_closes ==
    /\ Rendered
    /\ editCarOpen
    /\ Cardinality(inflight) < MaxInflight
    /\ request' = Request("/cars/id", editCar)
    /\ editCarOpen' = FALSE
    /\ \E reached \in BOOLEAN :
         IF reached
         THEN /\ srvPlate' = UpdateCarEndpoint(editCar)
              /\ inflight' = inflight \cup
                    {[Response(srvTasks, srvMileage, Now)
                        EXCEPT !.car.license_plate = srvPlate']}
              /\ lastOp' = Op("handleUpdateCar", NoId, "ok", 0)
         ELSE /\ UNCHANGED <<srvPlate, inflight>>
              /\ lastOp' = Op("handleUpdateCar", NoId, "failed", 0)
    /\ UNCHANGED editCar
    /\ UNCHANGED <<car, tasks, loading, completeTaskOpen, completeMileage,
                   replacementOpen, replacementReason>>
    /\ UNCHANGED <<srvVars, unitVars, engineVars, formVars, offEdit>>

\* handleUpdateCar, from the submit of the edit form: the request carries
\* editCar; when it succeeds the dialog closes and fetchCarData is called.
handleUpdateCar ==
    /\ Rendered
    /\ editCarOpen
    /\ Cardinality(inflight) < MaxInflight
    /\ request' = Request("/cars/id", editCar)
    /\ \E reached \in BOOLEAN :
         IF reached
         THEN /\ srvPlate' = UpdateCarEndpoint(editCar)
              /\ editCarOpen' = FALSE
              /\ inflight' = inflight \cup
                    {[Response(srvTasks, srvMileage, Now)
                        EXCEPT !.car.license_plate = srvPlate']}
              /\ lastOp' = Op("handleUpdateCar", NoId, "ok", 0)
         ELSE /\ UNCHANGED <<srvPlate, editCarOpen, inflight>>
              /\ lastOp' = Op("handleUpdateCar", NoId, "failed", 0)
    /\ UNCHANGED editCar
    /\ UNCHANGED <<car, tasks, loading, completeTaskOpen, completeMileage,
                   replacementOpen, replacementReason>>
    /\ UNCHANGED <<srvVars, unitVars, engineVars, formVars, offEdit>>

(***************************************************************************)
(* Specifications.                                                         *)
(***************************************************************************)
\* The preferences once the effects of the provider have run, English chosen.
SettledPrefs ==
    /\ language = "en"
    /\ storage = [language |-> language, distanceUnit |-> distanceUnit]
    /\ pendingEffects = {}
    /\ documentLang = language
    /\ memo = NoMemo

\* The other pages as their components are mounted.
IdleOther ==
    /\ IdleChat
    /\ IdleRegister
    /\ IdleLists
    /\ IdleGeo
    /\ IdleEdit

\* The router while another specification runs: a signed-in user on the
\* dashboard.
IdleRoutes ==
    /\ history = <<"/dashboard">>
    /\ authLoading = FALSE
    /\ user = "ana"
    /\ screen = Element("/dashboard", authLoading, user)
    /\ redirects = 0

\* The forms of CarDetail as the component is mounted.
IdleForms ==
    /\ addTaskOpen = FALSE
    /\ newTask = DefaultTask
    /\ addMileageOpen = FALSE
    /\ newMileage = 0

\* The Dashboard as the component is mounted, before its effect has run.
IdleDashboard ==
    /\ dashLoading = TRUE
    /\ cars = <<>>
    /\ dashInflight = {}
    /\ addCarOpen = FALSE
    /\ newCar = DefaultCar
    /\ imagePreview = NoPreview
    /\ imageMethod = "upload"
    /\ reading = {}

\* The page and the backend while another specification runs.
IdlePage ==
    /\ srvTasks = <<>>
    /\ srvMileage = 0
    /\ car = NoCar
    /\ tasks = <<>>
    /\ loading = TRUE
    /\ completeTaskOpen = NoId
    /\ completeMileage = 0
    /\ replacementOpen = NoId
    /\ replacementReason = <<>>
    /\ inflight = {}
    /\ lastOp = NoOp
    /\ IdleForms
    /\ request = NoRequest
    /\ srvCars = <<>>
    /\ IdleDashboard

InitUnits ==
    /\ distanceUnit \in {InitialUnit(saved) : saved \in SavedUnits}
    /\ convCall = NoCall
    /\ seIn = IdleInput
    /\ seOut = NoResult
    /\ SettledPrefs
    /\ IdleRoutes
    /\ IdleOther
    /\ IdlePage

NextUnits ==
    \/ \E u \in Units : setDistanceUnit(u)
    \/ RunEffect("distanceUnit")
    \/ \E value \in Values, toUnit \in Units : CallConvertDistance(value, toUnit)
    \/ \E value \in Values, showUnit \in BOOLEAN : CallFormatDistance(value, showUnit)

SpecUnits == InitUnits /\ [][NextUnits]_vars

\* The distances the calls made between preference changes are given.
PrefValues == {Missing, Num(0), Num(100)}

\* The preferences on a first visit: nothing is stored, the provider is
\* mounted and its first effects are yet to run.
InitPrefs ==
    /\ storage = [language |-> "null", distanceUnit |-> "null"]
    /\ language = InitialLanguage(storage.language)
    /\ distanceUnit = InitialUnit(storage.distanceUnit)
    /\ pendingEffects = PrefKeys
    /\ documentLang = HtmlLang
    /\ memo = NoMemo
    /\ convCall = NoCall
    /\ seIn = IdleInput
    /\ seOut = NoResult
    /\ IdleRoutes
    /\ IdleOther
    /\ IdlePage

NextPrefs ==
    \/ \E l \in Languages : setLanguage(l)
    \/ \E u \in Units : setDistanceUnit(u)
    \/ \E key \in PrefKeys : RunEffect(key)
    \/ MountProvider
    \/ \E value \in PrefValues, toUnit \in Units : CallConvertDistance(value, toUnit)
    \/ \E value \in PrefValues, showUnit \in BOOLEAN : CallFormatDistance(value, showUnit)
    \/ Remember

SpecPrefs == InitPrefs /\ [][NextPrefs]_vars

\* The router: the app is loaded at some location, the auth state loading.
InitRoutes ==
    /\ history \in {<<path>> : path \in Paths}
    /\ authLoading = TRUE
    /\ user = NoUser
    /\ screen = Element(Location, authLoading, user)
    /\ redirects = 0
    /\ IdleOther
    /\ distanceUnit = "miles"
    /\ convCall = NoCall
    /\ seIn = IdleInput
    /\ seOut = NoResult
    /\ SettledPrefs
    /\ IdlePage

NextRoutes ==
    \/ \E path \in Paths : GoTo(path)
    \/ GoBack
    \/ FollowNavigate
    \/ \E loadingNow \in BOOLEAN, userNow \in Users : AuthChange(loadingNow, userNow)

SpecRoutes == InitRoutes /\ [][NextRoutes]_vars

InitEngine ==
    /\ distanceUnit = "miles"
    /\ convCall = NoCall
    /\ seIn \in EngineInputs
    /\ seOut = NoResult
    /\ SettledPrefs
    /\ IdleRoutes
    /\ IdleOther
    /\ IdlePage

NextEngine == Retrieve

SpecEngine == InitEngine /\ [][NextEngine]_vars

\* CarDetail is mounted on a car with its tasks on record, each last done on
\* 2024-01-31 and due every 1000 miles or month; the effect of the mount has
\* called fetchCarData.
Init ==
    /\ distanceUnit = "miles"
    /\ convCall = NoCall
    /\ seIn = IdleInput
    /\ seOut = NoResult
    /\ SettledPrefs
    /\ IdleRoutes
    /\ IdleOther
    /\ srvTasks \in [TaskIds -> {TaskRecord(lm, Date(2024, 1, 31), 1000, 1, FALSE, NoReason) :
                                    lm \in Mileages}]
    /\ srvMileage = 500 * MaxMileageSteps
    /\ car = NoCar
    /\ tasks = <<>>
    /\ loading = TRUE
    /\ completeTaskOpen = NoId
    /\ completeMileage = 0
    /\ replacementOpen = NoId
    /\ replacementReason = <<>>
    /\ inflight = {Response(srvTasks, srvMileage, Now)}
    /\ lastOp = NoOp
    /\ IdleForms
    /\ request = NoRequest
    /\ srvCars = <<>>
    /\ IdleDashboard

Next ==
    \/ FetchResolve
    \/ \E id \in TaskIds \cup {NoId} : setCompleteTaskOpen(id)
    \/ \E typed \in Mileages : setCompleteMileage(typed)
    \/ \E id \in TaskIds : handleCompleteTask(id)
    \/ \E id \in TaskIds \cup {NoId} : setReplacementOpen(id)
    \/ \E text \in Reasons : setReplacementReason(text)
    \/ \E id \in TaskIds : handleRequestReplacement(id)
    \/ \E id \in TaskIds : handleCancelReplacement(id)

Spec == Init /\ [][Next]_vars

\* The forms of the two pages: the Dashboard or CarDetail is mounted (the
\* effect of the mount has called its fetch), on a car and its task, under
\* either distance unit.
InitForms ==
    /\ distanceUnit \in {InitialUnit(saved) : saved \in SavedUnits}
    /\ convCall = NoCall
    /\ seIn = IdleInput
    /\ seOut = NoResult
    /\ SettledPrefs
    /\ IdleRoutes
    /\ IdleOther
    /\ srvTasks = [id \in TaskIds |-> TaskRecord(0, Date(2024, 1, 31), 1000, 1, FALSE, NoReason)]
    /\ srvMileage = 500 * MaxMileageSteps
    /\ car = NoCar
    /\ tasks = <<>>
    /\ loading = TRUE
    /\ completeTaskOpen = NoId
    /\ completeMileage = 0
    /\ replacementOpen = NoId
    /\ replacementReason = <<>>
    /\ lastOp = NoOp
    /\ IdleForms
    /\ request = NoRequest
    /\ srvCars = <<>>
    /\ dashLoading = TRUE
    /\ cars = <<>>
    /\ \/ inflight = {} /\ dashInflight = {DashResponse(srvMileage, srvCars)}
       \/ inflight = {Response(srvTasks, srvMileage, Now)} /\ dashInflight = {}
    /\ addCarOpen = FALSE
    /\ newCar = DefaultCar
    /\ imagePreview = NoPreview
    /\ imageMethod = "upload"
    /\ reading = {}

NextForms ==
    \/ DashFetchResolve
    \/ \E open \in BOOLEAN : setAddCarOpen(open)
    \/ \E text \in TypedTexts : setNewCarMileage(text)
    \/ handleAddCar
    \/ FetchResolve
    \/ \E open \in BOOLEAN : setAddTaskOpen(open)
    \/ \E text \in TypedTexts : setNewTaskNumber("last_performed_mileage", text)
    \/ handleAddTask
    \/ \E open \in BOOLEAN : setAddMileageOpen(open)
    \/ \E text \in TypedTexts : setNewMileage(text)
    \/ handleAddMileage
    \/ \E id \in TaskIds \cup {NoId} : setCompleteTaskOpen(id)
    \/ \E text \in TypedTexts : typeCompleteMileage(text)
    \/ \E id \in TaskIds : handleCompleteTask(id)

SpecForms == InitForms /\ [][NextForms]_vars

\* The add-task dialog of CarDetail: the page is mounted on a car and its task.
InitAddTask ==
    /\ distanceUnit = "miles"
    /\ convCall = NoCall
    /\ seIn = IdleInput
    /\ seOut = NoResult
    /\ SettledPrefs
    /\ IdleRoutes
    /\ IdleOther
    /\ srvTasks = [id \in TaskIds |-> TaskRecord(0, Date(2024, 1, 31), 1000, 1, FALSE, NoReason)]
    /\ srvMileage = 500 * MaxMileageSteps
    /\ car = NoCar
    /\ tasks = <<>>
    /\ loading = TRUE
    /\ completeTaskOpen = NoId
    /\ completeMileage = 0
    /\ replacementOpen = NoId
    /\ replacementReason = <<>>
    /\ inflight = {Response(srvTasks, srvMileage, Now)}
    /\ lastOp = NoOp
    /\ IdleForms
    /\ request = NoRequest
    /\ srvCars = <<>>
    /\ IdleDashboard

NextAddTask ==
    \/ FetchResolve
    \/ \E open \in BOOLEAN : setAddTaskOpen(open)
    \/ \E field \in {"last_performed_mileage", "interval_miles", "interval_months"},
          text \in TypedTexts : setNewTaskNumber(field, text)
    \/ \E value \in SelectedTypes : handleTaskTypeChange(value)
    \/ handleAddTask

SpecAddTask == InitAddTask /\ [][NextAddTask]_vars

\* The image of the add-vehicle form: the Dashboard is mounted, the effect
\* of the mount has called fetchData.
InitUpload ==
    /\ distanceUnit = "miles"
    /\ convCall = NoCall
    /\ seIn = IdleInput
    /\ seOut = NoResult
    /\ SettledPrefs
    /\ IdleRoutes
    /\ IdleOther
    /\ srvTasks = <<>>
    /\ srvMileage = 0
    /\ car = NoCar
    /\ tasks = <<>>
    /\ loading = TRUE
    /\ completeTaskOpen = NoId
    /\ completeMileage = 0
    /\ replacementOpen = NoId
    /\ replacementReason = <<>>
    /\ inflight = {}
    /\ lastOp = NoOp
    /\ IdleForms
    /\ request = NoRequest
    /\ srvCars = <<>>
    /\ dashLoading = TRUE
    /\ cars = <<>>
    /\ dashInflight = {DashResponse(srvMileage, srvCars)}
    /\ addCarOpen = FALSE
    /\ newCar = DefaultCar
    /\ imagePreview = NoPreview
    /\ imageMethod = "upload"
    /\ reading = {}

NextUpload ==
    \/ DashFetchResolve
    \/ \E open \in BOOLEAN : setAddCarOpen(open)
    \/ \E file \in Files \cup {NoFile} : handleImageUpload(file)
    \/ \E file \in Files, loaded \in BOOLEAN : ReadEnd(file, loaded)
    \/ \E url \in ImageUrls : handleImageUrlChange(url)
    \/ clearImage
    \/ \E method \in {"upload", "url"} : setImageMethod(method)
    \/ handleAddCar

SpecUpload == InitUpload /\ [][NextUpload]_vars

\* The pages that stand alone start as CarDetail idles and a user is signed in.
IdleApp ==
    /\ distanceUnit = "miles"
    /\ convCall = NoCall
    /\ seIn = IdleInput
    /\ seOut = NoResult
    /\ SettledPrefs
    /\ IdleRoutes
    /\ IdlePage

\* CarDetail under route changes: the page is mounted on the first car, the
\* effect of the mount has called fetchCarData.
InitRefetch ==
    /\ distanceUnit = "miles"
    /\ convCall = NoCall
    /\ seIn = IdleInput
    /\ seOut = NoResult
    /\ SettledPrefs
    /\ IdleOther
    /\ history = <<"/cars/1">>
    /\ authLoading = FALSE
    /\ user = "ana"
    /\ screen = Element(Location, authLoading, user)
    /\ redirects = 0
    /\ srvTasks = [id \in TaskIds |-> TaskRecord(0, Date(2024, 1, 31), 1000, 1, FALSE, NoReason)]
    /\ srvMileage = 500 * MaxMileageSteps
    /\ car = NoCar
    /\ tasks = <<>>
    /\ loading = TRUE
    /\ completeTaskOpen = NoId
    /\ completeMileage = 0
    /\ replacementOpen = NoId
    /\ replacementReason = <<>>
    /\ inflight = {ServerView(CarIdOf(Location), srvTasks, srvMileage)}
    /\ lastOp = NoOp
    /\ IdleForms
    /\ request = NoRequest
    /\ srvCars = <<>>
    /\ IdleDashboard

\* The mutations of the model are made on the first car.
NextRefetch ==
    \/ FetchResolve
    \/ \E path \in CarPaths : RouteChange(path)
    \/ \E open \in BOOLEAN : CarIdOf(Location) = 1 /\ setAddMileageOpen(open)
    \/ \E text \in TypedTexts : CarIdOf(Location) = 1 /\ setNewMileage(text)
    \/ CarIdOf(Location) = 1 /\ handleAddMileage

SpecRefetch == InitRefetch /\ [][NextRefetch]_vars

\* The Dashboard has fetched some task list.
InitUpcoming ==
    /\ IdleApp
    /\ IdleChat
    /\ IdleRegister
    /\ IdleGeo
    /\ IdleEdit
    /\ dashTasks \in TaskLists
    /\ upcomingTasks = NotShown
    /\ statusCounts = NotShown
    /\ badges = NotShown

NextUpcoming == RenderUpcoming

SpecUpcoming == InitUpcoming /\ [][NextUpcoming]_vars

\* The tasks of a car as the backend returns them: last done at 0 miles on
\* 2024-01-31, due every month or every six, every 5000 miles or every
\* 100000, with and without a replacement request.
HealthMileage == 4600
FetchedTasks ==
    { StatusEngine(TaskRecord(0, Date(2024, 1, 31), miles, months, requested,
                              IF requested THEN <<"a">> ELSE NoReason),
                   HealthMileage, Now) :
        <<miles, months, requested>> \in {5000, 100000} \X {1, 6} \X BOOLEAN }

\* CarDetail has fetched a car and some list of its tasks.
InitHealth ==
    /\ distanceUnit = "miles"
    /\ convCall = NoCall
    /\ seIn = IdleInput
    /\ seOut = NoResult
    /\ SettledPrefs
    /\ IdleRoutes
    /\ IdleOther
    /\ srvTasks = <<>>
    /\ srvMileage = HealthMileage
    /\ car = [current_mileage |-> HealthMileage, license_plate |-> "AB-1"]
    /\ tasks \in UNION {[1..n -> FetchedTasks] : n \in 0..MaxListLen}
    /\ loading = FALSE
    /\ completeTaskOpen = NoId
    /\ completeMileage = 0
    /\ replacementOpen = NoId
    /\ replacementReason = <<>>
    /\ inflight = {}
    /\ lastOp = NoOp
    /\ addTaskOpen = FALSE
    /\ newTask = DefaultTask
    /\ addMileageOpen = FALSE
    /\ newMileage = HealthMileage
    /\ request = NoRequest
    /\ srvCars = <<>>
    /\ IdleDashboard

NextHealth == RenderHealth

SpecHealth == InitHealth /\ [][NextHealth]_vars

\* The mutations of CarDetail: the page is mounted on a car and its task, the
\* effect of the mount has called fetchCarData.
InitMutations ==
    /\ distanceUnit = "miles"
    /\ convCall = NoCall
    /\ seIn = IdleInput
    /\ seOut = NoResult
    /\ SettledPrefs
    /\ IdleRoutes
    /\ IdleOther
    /\ srvTasks = [id \in TaskIds |-> TaskRecord(0, Date(2024, 1, 31), 1000, 1, FALSE, NoReason)]
    /\ srvMileage = 500 * MaxMileageSteps
    /\ car = NoCar
    /\ tasks = <<>>
    /\ loading = TRUE
    /\ completeTaskOpen = NoId
    /\ completeMileage = 0
    /\ replacementOpen = NoId
    /\ replacementReason = <<>>
    /\ inflight = {Response(srvTasks, srvMileage, Now)}
    /\ lastOp = NoOp
    /\ IdleForms
    /\ request = NoRequest
    /\ srvCars = <<>>
    /\ IdleDashboard

NextMutations ==
    \/ FetchResolve
    \/ \E open \in BOOLEAN : setAddTaskOpen(open)
    \/ \E text \in {<<"-", "7">>} : setNewTaskNumber("last_performed_mileage", text)
    \/ handleAddTask
    \/ \E open \in BOOLEAN : setAddMileageOpen(open)
    \/ \E text \in {<<"-", "7">>} : setNewMileage(text)
    \/ handleAddMileage
    \/ \E id \in TaskIds \cup {NoId} : setCompleteTaskOpen(id)
    \/ \E typed \in {-7} : setCompleteMileage(typed)
    \/ \E id \in TaskIds : handleCompleteTask(id)
    \/ \E id \in TaskIds : setReplacementOpen(id)
    \/ \E text \in {<<"a">>} : setReplacementReason(text)
    \/ \E id \in TaskIds : handleRequestReplacement(id)
    \/ \E open \in BOOLEAN : setEditCarOpen(open)
    \/ \E plate \in Plates : setEditCar(plate)
    \/ handleUpdateCar

SpecMutations == InitMutations /\ [][NextMutations]_vars

\* NearbyMechanics is mounted and its effect has called getLocation.
InitGeo ==
    /\ distanceUnit = "miles"
    /\ convCall = NoCall
    /\ seIn = IdleInput
    /\ seOut = NoResult
    /\ SettledPrefs
    /\ IdlePage
    /\ IdleChat
    /\ IdleRegister
    /\ IdleLists
    /\ IdleEdit
    /\ history = <<"/nearby-mechanics">>
    /\ authLoading = FALSE
    /\ user = "ana"
    /\ screen = Element(Location, authLoading, user)
    /\ redirects = 0
    /\ location = NoLocation
    /\ searchQuery = "auto mechanic"
    /\ geoSupported \in BOOLEAN
    /\ geoLoading = geoSupported
    /\ error = IF geoSupported THEN NoError ELSE Unsupported
    /\ geoPending = IF geoSupported THEN 1 ELSE 0

NextGeo ==
    \/ getLocation
    \/ \E position \in Positions : PositionFound(position)
    \/ PositionFailed
    \/ \E query \in Queries : setSearchQuery(query)
    \/ \E query \in Queries \cup QuickSearches : openGoogleMaps(query)

SpecGeo == InitGeo /\ [][NextGeo]_vars

\* The chat: AIMechanic is mounted.
InitChat ==
    /\ IdleApp
    /\ IdleOther

NextChat ==
    \/ ChatRender
    \/ \E text \in ChatTexts : setInput(text)
    \/ \E control \in {"Enter", "button"} : handleSend(control)
    \/ \E sent \in 1..MaxMessages, ok \in BOOLEAN : ChatSettle(sent, ok)

SpecChat == InitChat /\ [][NextChat]_vars

\* Register: a visitor without a session is on /register.
InitRegister ==
    /\ distanceUnit = "miles"
    /\ convCall = NoCall
    /\ seIn = IdleInput
    /\ seOut = NoResult
    /\ SettledPrefs
    /\ IdlePage
    /\ IdleOther
    /\ history = <<"/register">>
    /\ authLoading = FALSE
    /\ user = NoUser
    /\ screen = Element(Location, authLoading, user)
    /\ redirects = 0

NextRegister ==
    \/ RegRender
    \/ \E text \in Passwords : setPassword(text)
    \/ \E text \in Passwords : setConfirmPassword(text)
    \/ handleSubmit
    \/ \E sent \in Passwords, ok \in BOOLEAN, userNow \in Users :
          RegisterSettle(sent, ok, userNow)
    \/ FollowNavigate

SpecRegister == InitRegister /\ [][NextRegister]_vars

(***************************************************************************)
(* Claims on the unit converter (SpecUnits).                               *)
(***************************************************************************)
\* C1: convertDistance of a non-negative integer distance m is m when the unit
\* is miles and the integer nearest to m * 1.60934 when the unit is km;
\* convertDistance(100, miles) = 100 and convertDistance(100, km) = 161.
C1_toDisplay ==
    (convCall.fn = "convertDistance" /\ IsNum(convCall.value) /\ convCall.value.n >= 0) =>
        LET m == convCall.value.n
            k == convCall.result
        IN  /\ convCall.toUnit = "miles" => k = m
            /\ convCall.toUnit = "km" =>
                 /\ m <= 26000 => /\ 50000 * k - 80467 * m <= 25000
                                  /\ 80467 * m - 50000 * k < 25000
                 /\ m = 100 => k = 161
                 /\ m = 62137 => k = 100000
                 /\ m = 1000000 => k = 1609340

C1_witness ==
    /\ convCall.fn = "convertDistance"
    /\ convCall.value = Num(100)
    /\ convCall.toUnit = "km"
    /\ convCall.result = 161

\* C2 as stated: formatDistance of a zero or of a missing distance returns the
\* 'not available' placeholder.
C2_zeroOrMissingIsNA ==
    (convCall.fn = "formatDistance" /\ Falsy(convCall.value)) => convCall.result = "N/A"

\* C2 as amended: formatDistance of a missing distance returns 'N/A'; a distance
\* of zero is rendered as the number 0, with the unit suffix when showUnit.
C2_missingIsNA ==
    convCall.fn = "formatDistance" =>
        /\ ~IsNum(convCall.value) => convCall.result = "N/A"
        /\ (IsNum(convCall.value) /\ convCall.value.n = 0) =>
             convCall.result = (IF ~convCall.showUnit THEN "0"
                                ELSE IF distanceUnit = "km" THEN "0 km" ELSE "0 mi")

C2_witness ==
    /\ convCall.fn = "formatDistance"
    /\ convCall.value = Num(0)
    /\ convCall.showUnit
    /\ distanceUnit = "miles"
    /\ convCall.result = "0 mi"

(***************************************************************************)
(* Claims on the status engine and the task card (SpecEngine).             *)
(***************************************************************************)
MilesRemainingOf(in) ==
    in.task.last_performed_mileage + in.task.interval_miles - in.current_mileage

\* a is on or before b, by year, month, day.
DateLE(a, b) ==
    \/ a.y < b.y
    \/ a.y = b.y /\ a.m < b.m
    \/ a.y = b.y /\ a.m = b.m /\ a.d <= b.d

\* C3: a task whose replacement_requested flag is set is shown as 'Needs
\* Replacement' whatever its mileage, date and intervals: its status is
\* replacement_requested, it is counted as such, and it is not listed as
\* due soon or overdue.
C3_replacementPrecedence ==
    (IsResult(seOut) /\ seOut.replacement_requested) =>
        /\ seOut.status = "replacement_requested"
        /\ BadgeLabel(seOut) = "Needs Replacement"
        /\ CountedAs(seOut) = "replacement_requested"
        /\ ~IsUpcoming(seOut)

C3_witness ==
    /\ IsResult(seOut)
    /\ seOut.replacement_requested
    /\ MilesRemainingOf(seIn) <= 0
    /\ BadgeLabel(seOut) = "Needs Replacement"

\* C4: a task without a replacement request is overdue whenever the current
\* mileage has reached the next due mileage or today has reached the next due
\* date, however far the other dimension is from due; it is then listed as
\* overdue among the upcoming tasks.
C4_overdueEitherDimension ==
    (/\ IsResult(seOut)
     /\ ~seOut.replacement_requested
     /\ \/ seIn.current_mileage >= seOut.next_due_mileage
        \/ DateLE(seOut.next_due_date, seIn.today)) =>
        /\ seOut.status = "overdue"
        /\ IsUpcoming(seOut)
        /\ UpcomingBadge(seOut) = "Overdue"

\* lastPerformedMileage = 50000, intervalMiles = 5000, currentMileage = 55200,
\* the date more than a month from due.
C4_witness ==
    /\ IsResult(seOut)
    /\ ~seOut.replacement_requested
    /\ seIn.task.last_performed_mileage = 50000
    /\ seIn.task.interval_miles = 5000
    /\ seIn.current_mileage = 55200
    /\ seIn.task.last_performed_date = Date(2024, 1, 15)
    /\ seIn.task.interval_months = 6
    /\ seIn.today = Date(2024, 6, 1)
    /\ seOut.status = "overdue"

\* C5: a task without a replacement request is due soon, and neither overdue
\* nor good, when neither dimension has been crossed and exactly one of them
\* is within its threshold (500 miles, 14 days).
C5_dueSoonOneDimension ==
    (/\ IsResult(seOut)
     /\ ~seOut.replacement_requested
     /\ MilesRemainingOf(seIn) > 0
     /\ DayNumber(seOut.next_due_date) - DayNumber(seIn.today) > 0
     /\ (MilesRemainingOf(seIn) <= 500)
          # (DayNumber(seOut.next_due_date) - DayNumber(seIn.today) <= 14)) =>
        /\ seOut.status = "due_soon"
        /\ BadgeLabel(seOut) = "Due Soon"

\* 400 miles remain and the due date 2024-07-15 is 44 days away.
C5_witness ==
    /\ IsResult(seOut)
    /\ ~seOut.replacement_requested
    /\ seIn.task.last_performed_mileage = 50000
    /\ seIn.task.interval_miles = 5000
    /\ seIn.current_mileage = 54600
    /\ seIn.task.last_performed_date = Date(2024, 1, 15)
    /\ seIn.task.interval_months = 6
    /\ seIn.today = Date(2024, 6, 1)
    /\ seOut.next_due_date = Date(2024, 7, 15)
    /\ seOut.status = "due_soon"

\* C6: for positive intervals the next due mileage is the last performed
\* mileage plus interval_miles, and the next due date lies interval_months
\* calendar months after the last performed date: in that month, on the same
\* day of the month, or on the month's last day when it has no such day.
C6_nextDue ==
    (seOut # NoResult /\ seIn.task.interval_miles > 0 /\ seIn.task.interval_months > 0) =>
        LET last == seIn.task.last_performed_date
            due  == seOut.next_due_date
        IN  /\ IsResult(seOut)
            /\ seOut.next_due_mileage =
                 seIn.task.last_performed_mileage + seIn.task.interval_miles
            /\ ValidDate(due.y, due.m, due.d)
            /\ due.y * 12 + due.m = last.y * 12 + last.m + seIn.task.interval_months
            /\ \/ due.d = last.d
               \/ due.d < last.d /\ due.d = DaysInMonth(due.y, due.m)
            /\ (last = Date(2024, 1, 31) /\ seIn.task.interval_months = 1)
                  => due = Date(2024, 2, 29)
            /\ (last = Date(2023, 1, 31) /\ seIn.task.interval_months = 1)
                  => due = Date(2023, 2, 28)

\* Jan 31 of a leap year plus one month.
C6_witness ==
    /\ IsResult(seOut)
    /\ seIn.task.last_performed_date = Date(2024, 1, 31)
    /\ seIn.task.interval_months = 1
    /\ seOut.next_due_date = Date(2024, 2, 29)
    /\ seOut.next_due_mileage = seIn.task.last_performed_mileage + seIn.task.interval_miles

(***************************************************************************)
(* Claims on the CarDetail handlers and the backend records (Spec).        *)
(***************************************************************************)
\* The stored fields of a task that a replacement request or its cancellation
\* must leave alone.
ServiceFields(task) ==
    <<task.last_performed_mileage, task.last_performed_date,
      task.interval_miles, task.interval_months>>

\* C7: completing a task with a mileage lower than its last performed mileage
\* fails: the backend rejects the request with a ValidationError whenever it
\* receives it, the task's record keeps every field, and so does the page
\* (no refetch, the dialog still open); also for the dialog's default mileage.
C7_completeRegressionRejected ==
    [][(/\ lastOp'.op = "handleCompleteTask"
        /\ lastOp'.task \in DOMAIN srvTasks
        /\ lastOp'.arg < srvTasks[lastOp'.task].last_performed_mileage) =>
          /\ lastOp'.outcome \in {"rejected", "failed"}
          /\ srvTasks' = srvTasks
          /\ tasks' = tasks
          /\ inflight' = inflight
          /\ completeTaskOpen' = completeTaskOpen]_vars

\* The default mileage 0 of the dialog was sent for a task last done at 500.
C7_witness ==
    /\ lastOp.op = "handleCompleteTask"
    /\ lastOp.outcome = "rejected"
    /\ lastOp.arg = 0
    /\ completeMileage = 0
    /\ srvTasks[lastOp.task].last_performed_mileage = 500
    /\ srvTasks[lastOp.task].last_performed_date = Date(2024, 1, 31)

\* C8: right after a successful completion the task's last performed mileage is
\* the mileage entered in the dialog, its last performed date is the current
\* date, its intervals are as before, its replacement flag is off and its
\* reason absent; the refetch the handler starts returns the task with a
\* status and a badge other than replacement_requested.
C8_completeResets ==
    (lastOp.op = "handleCompleteTask" /\ lastOp.outcome = "ok") =>
        LET id       == lastOp.task
            stored   == srvTasks[id]
            returned == Response(srvTasks, srvMileage, Now).tasks[id]
        IN  /\ stored.last_performed_mileage = lastOp.arg
            /\ lastOp.arg = completeMileage
            /\ stored.last_performed_date = Now
            /\ stored.replacement_requested = FALSE
            /\ stored.replacement_reason = NoReason
            /\ Response(srvTasks, srvMileage, Now) \in inflight
            /\ returned.status # "replacement_requested"
            /\ BadgeLabel(returned) # "Needs Replacement"
            /\ completeTaskOpen = NoId

\* A task shown as 'Needs Replacement' has just been completed at 500 miles.
C8_witness ==
    /\ lastOp.op = "handleCompleteTask"
    /\ lastOp.outcome = "ok"
    /\ lastOp.arg = 500
    /\ lastOp.task \in DOMAIN tasks
    /\ BadgeLabel(tasks[lastOp.task]) = "Needs Replacement"
    /\ srvTasks[lastOp.task].last_performed_mileage = 500
    /\ ~srvTasks[lastOp.task].replacement_requested

\* C9: handleRequestReplacement with an empty or a blank reason sends no
\* request and changes nothing: the records, the page's tasks, the dialog and
\* the reason text stay as they are and no refetch starts; a request is sent
\* only with a reason that is not blank.
C9_blankReasonBlocked ==
    [][lastOp'.op = "handleRequestReplacement" =>
          /\ trim(replacementReason) = <<>> =>
               /\ lastOp'.outcome = "blocked"
               /\ srvTasks' = srvTasks
               /\ tasks' = tasks
               /\ inflight' = inflight
               /\ replacementOpen' = replacementOpen
               /\ replacementReason' = replacementReason
          /\ lastOp'.outcome # "blocked" => trim(replacementReason) # <<>>]_vars

\* A reason of one blank was entered and the handler ran.
C9_witness ==
    /\ lastOp.op = "handleRequestReplacement"
    /\ lastOp.outcome = "blocked"
    /\ lastOp.arg = <<" ">>
    /\ replacementReason = <<" ">>
    /\ replacementOpen = lastOp.task
    /\ ~srvTasks[lastOp.task].replacement_requested

\* C10: a replacement request and its cancellation leave the last performed
\* mileage and date and both intervals of every task as they were, and the
\* car's mileage too; a request that succeeds sets the flag and stores the
\* reason, a cancellation that succeeds clears the flag and the reason.
C10_replacementFrame ==
    [][lastOp'.op \in {"handleRequestReplacement", "handleCancelReplacement"} =>
          /\ DOMAIN srvTasks' = DOMAIN srvTasks
          /\ \A id \in DOMAIN srvTasks :
                /\ ServiceFields(srvTasks'[id]) = ServiceFields(srvTasks[id])
                /\ id # lastOp'.task => srvTasks'[id] = srvTasks[id]
          /\ srvMileage' = srvMileage
          /\ (lastOp'.op = "handleRequestReplacement" /\ lastOp'.outcome = "ok") =>
                /\ srvTasks'[lastOp'.task].replacement_requested
                /\ srvTasks'[lastOp'.task].replacement_reason = replacementReason
          /\ (lastOp'.op = "handleCancelReplacement" /\ lastOp'.outcome = "ok") =>
                /\ ~srvTasks'[lastOp'.task].replacement_requested
                /\ srvTasks'[lastOp'.task].replacement_reason = NoReason]_vars

\* A request on a task completed at 500 miles on 2024-03-01 has been cancelled.
C10_witness ==
    /\ lastOp.op = "handleCancelReplacement"
    /\ lastOp.outcome = "ok"
    /\ lastOp.task \in DOMAIN tasks
    /\ tasks[lastOp.task].replacement_requested
    /\ ~srvTasks[lastOp.task].replacement_requested
    /\ srvTasks[lastOp.task].replacement_reason = NoReason
    /\ srvTasks[lastOp.task].last_performed_mileage = 500
    /\ srvTasks[lastOp.task].last_performed_date = Date(2024, 3, 1)

(***************************************************************************)
(* Further claims on the unit converter (SpecUnits).                       *)
(***************************************************************************)
\* The code's way back from a displayed distance to miles: the one converter
\* it has ("Convert miles to km or vice versa"), called toward 'miles'.
BackToMiles(displayed) == convertDistance(Num(displayed), "miles")

\* C12: for every integer m in 0..1000000, converting m miles to kilometers
\* and back gives a value within 1 mile of m.
C12_roundTrip ==
    (/\ convCall.fn = "convertDistance"
     /\ convCall.toUnit = "km"
     /\ IsNum(convCall.value)
     /\ convCall.value.n \in 0..1000000)
        => LET back == BackToMiles(convCall.result)
           IN  back - convCall.value.n \in {0 - 1, 0, 1}

\* C13: the converter rejects every negative distance: a call of
\* convertDistance or formatDistance with a distance below zero returns no
\* converted number and no formatted text.
C13_negativeRejected ==
    (convCall # NoCall /\ IsNum(convCall.value) /\ convCall.value.n < 0)
        => /\ convCall.fn = "convertDistance" => convCall.result \notin Int
           /\ convCall.fn = "formatDistance" => convCall.result \notin STRING

(***************************************************************************)
(* Claims on the forms of the pages (SpecAddTask, SpecForms).              *)
(***************************************************************************)
\* The text writes a number above zero.
PositiveNumber(text) == IsNum(parseInt(text)) /\ parseInt(text).n > 0

\* C11: a task with a non-positive interval is rejected and never replaced by
\* a default: a text typed into an interval field that writes no positive
\* number leaves a non-positive interval in the form; handleAddTask sends the
\* intervals of the form as they are, and when one of them is non-positive the
\* request is rejected (or never arrives), no task is created and the form is
\* kept; no task on record has a non-positive interval, and every task shown
\* was evaluated without error.
C11_nonPositiveIntervalRejected ==
    [][ /\ \A field \in {"interval_miles", "interval_months"}, text \in TypedTexts :
             (setNewTaskNumber(field, text) /\ ~PositiveNumber(text))
                 => newTask'[field] <= 0
        /\ handleAddTask =>
             /\ request'.body.interval_miles = newTask.interval_miles
             /\ request'.body.interval_months = newTask.interval_months
             /\ (newTask.interval_miles <= 0 \/ newTask.interval_months <= 0) =>
                   /\ lastOp'.outcome \in {"rejected", "failed"}
                   /\ srvTasks' = srvTasks
                   /\ newTask' = newTask
                   /\ addTaskOpen'
        /\ \A id \in DOMAIN srvTasks' :
             srvTasks'[id].interval_miles > 0 /\ srvTasks'[id].interval_months > 0
        /\ \A id \in DOMAIN tasks' : IsResult(tasks'[id])
      ]_vars

\* A task type was selected, a non-positive interval was then entered, and the
\* submit was rejected by the backend.
C11_witness ==
    /\ lastOp.op = "handleAddTask"
    /\ lastOp.outcome = "rejected"
    /\ lastOp.arg.task_type \in SelectedTypes
    /\ lastOp.arg.interval_miles <= 0
    /\ lastOp.arg.last_performed_mileage >= 0
    /\ addTaskOpen
    /\ newTask = lastOp.arg

\* The mileage a request carries.
MileageSent(req) ==
    CASE req.url = "/mileage" -> req.body
      [] req.url = "/maintenance" -> req.body.last_performed_mileage
      [] req.url = "/cars" -> req.body.current_mileage
      [] req.url = "/maintenance/id/complete" -> req.body

CarriesMileage(req) ==
    req.url \in {"/mileage", "/maintenance", "/cars", "/maintenance/id/complete"}

\* C14: every mileage the client submits (new vehicle, mileage log entry,
\* task last_performed_mileage, completion) is a non-negative integer,
\* whatever text was typed into the mileage inputs.
C14_mileagesNonNegative ==
    CarriesMileage(request) => MileageSent(request) \in Nat

\* C15: all distances are shown in the selected unit: while the preference
\* is kilometers, the current mileage, the last / next due mileage and the
\* interval of every task on CarDetail and the mileage of every vehicle card
\* on the Dashboard are the kilometer conversion with the km label.
C15_shownInSelectedUnit ==
    distanceUnit = "km" =>
        /\ Rendered =>
             /\ CurrentMileageText = formatDistance(Num(car.current_mileage), TRUE)
             /\ \A id \in DOMAIN tasks :
                  /\ TaskLastText(tasks[id])
                        = formatDistance(Num(tasks[id].last_performed_mileage), TRUE)
                  /\ TaskNextText(tasks[id])
                        = formatDistance(Num(tasks[id].next_due_mileage), TRUE)
                  /\ TaskEveryText(tasks[id])
                        = formatDistance(Num(tasks[id].interval_miles), TRUE)
        /\ DashRendered =>
             \A id \in DOMAIN cars :
                CarCardMileageText(cars[id])
                    = formatDistance(Num(cars[id].current_mileage), TRUE)

\* C19: no distance is sent in a non-canonical unit: under either distance
\* unit, the mileage each handler sends (add vehicle, log mileage, add task,
\* complete task) is the number of its field, which the form labels and
\* prefills in miles, with no conversion applied.
C19_mileageSentInMiles ==
    [][ /\ handleAddCar => MileageSent(request') = newCar.current_mileage
        /\ handleAddMileage => MileageSent(request') = newMileage
        /\ handleAddTask => MileageSent(request') = newTask.last_performed_mileage
        /\ \A id \in TaskIds :
             handleCompleteTask(id) => MileageSent(request') = completeMileage
      ]_vars

\* Under kilometers a mileage of 7 was logged and reached the backend as 7.
C19_witness ==
    /\ distanceUnit = "km"
    /\ lastOp.op = "handleAddMileage"
    /\ lastOp.outcome = "ok"
    /\ lastOp.arg = 7
    /\ request = Request("/mileage", 7)
    /\ srvMileage = 7

\* C16: language and distanceUnit are persisted in localStorage. Once the
\* effects of the set calls have run, the storage holds the current values;
\* a provider started afterwards initialises each preference to its stored
\* value, to 'en' and 'miles' when nothing is stored, and so starts with
\* the values that were in force when the previous one had settled.
C16_preferencesPersisted ==
    [][ /\ pendingEffects' = {} =>
            storage' = [language |-> language', distanceUnit |-> distanceUnit']
        /\ MountProvider =>
            /\ language' = (IF storage.language = "null" THEN "en" ELSE storage.language)
            /\ distanceUnit' = (IF storage.distanceUnit = "null" THEN "miles"
                                ELSE storage.distanceUnit)
        /\ (MountProvider /\ pendingEffects = {}) =>
            language' = language /\ distanceUnit' = distanceUnit ]_vars

\* Both preferences were changed and stored, and a provider started
\* afterwards (the document's lang is the served one again) came up with them.
C16_witness ==
    /\ storage = [language |-> "es", distanceUnit |-> "km"]
    /\ language = "es"
    /\ distanceUnit = "km"
    /\ documentLang = HtmlLang
    /\ pendingEffects = PrefKeys

\* Two calls of the same function with the same arguments.
SameCall(a, b) ==
    /\ a.fn = b.fn
    /\ a.value = b.value
    /\ IF a.fn = "convertDistance" THEN a.toUnit = b.toUnit ELSE a.showUnit = b.showUnit

ProtectedAsRequired ==
    /\ (screen.kind = "page" /\ screen.of \in ProtectedPages)
           => (~authLoading /\ user # NoUser)
    /\ (Location \in ProtectedPaths /\ authLoading) => screen = Spinner
    /\ (Location \in ProtectedPaths /\ ~authLoading /\ user = NoUser)
           => screen = Navigate("/login")

\* C17: the content of a protected page is on screen only when the auth
\* state has finished loading and a user is present; at a protected location
\* only the spinner is rendered while auth is loading, and with no user a
\* redirect is rendered whose next step puts the visitor on /login.
C17_protectedRoutes ==
    [][ /\ ProtectedAsRequired
        /\ ProtectedAsRequired'
        /\ (screen = Navigate("/login") /\ history' # history)
               => Location' = "/login" ]_vars

\* A visitor whose session ended while on a car's page is being redirected.
C17_witness ==
    /\ Location \in CarPaths
    /\ ~authLoading
    /\ user = NoUser
    /\ screen = Navigate("/login")
    /\ Len(history) = MaxHistory

\* C20: for every selected file of 5 MB (5*1024*1024 bytes) or more,
\* handleImageUpload shows the error, starts no read and leaves imagePreview
\* unchanged.
C20_largeImageRejected ==
    [][ \A file \in Files :
          (handleImageUpload(file) /\ file.size >= 5 * 1024 * 1024)
          => /\ lastOp'.outcome = "Image must be less than 5MB"
             /\ reading' = reading
             /\ imagePreview' = imagePreview ]_vars

Alternating(transcript) ==
    /\ Len(transcript) % 2 = 1
    /\ transcript[1] = Greeting
    /\ \A i \in 1..Len(transcript) :
          transcript[i].role = IF i % 2 = 1 THEN "assistant" ELSE "user"

C28_registerValidated ==
    [][ /\ handleSubmit =>
              IF regView.password = regView.confirmPassword /\ Len(regView.password) >= 6
              THEN request' = Request("register", regView.password)
              ELSE request' = NoRequest /\ regInflight' = regInflight /\ ~regLoading'
        /\ request'.url = "register" =>
              (Len(request'.body) >= 6 /\ request'.body = regView.confirmPassword)
        /\ (lastOp'.op = "handleSubmit" /\ lastOp'.outcome \in {"registered", "failed"})
              => ~regLoading' ]_vars

\* A registration with a confirmed password of six characters was attempted
\* and has failed: nothing is in flight and loading is false again.
C28_witness ==
    /\ lastOp = Op("handleSubmit", NoId, "failed", 0)
    /\ ~regLoading
    /\ regInflight = {}
    /\ Len(password) = 6
    /\ password = confirmPassword

\* C23: once every outstanding fetchCarData has completed, the car and the
\* tasks displayed are those of the latest server state for the carId of the
\* route, after any sequence of mutations and route changes: an earlier
\* fetch that is slower never overwrites the result of a later one.
C23_latestFetchWins ==
    inflight = {} =>
        /\ car = ServerView(CarIdOf(Location), srvTasks, srvMileage).car
        /\ tasks = ServerView(CarIdOf(Location), srvTasks, srvMileage).tasks

\* C24: the 'Upcoming Maintenance' list contains only tasks that are due soon
\* or overdue, at most 5 of them, every overdue task before any due-soon
\* task, and a due-soon task only if every overdue task is shown.
C24_upcomingList ==
    upcomingTasks.shown =>
        LET list == upcomingTasks.list
            overdue == {i \in 1..Len(dashTasks) : dashTasks[i].status = "overdue"}
        IN  /\ \A i \in 1..Len(list) : list[i].status \in {"due_soon", "overdue"}
            /\ \A i \in 1..Len(list) : \E k \in 1..Len(dashTasks) : list[i] = dashTasks[k]
            /\ Len(list) <= 5
            /\ \A i, j \in 1..Len(list) :
                  (list[i].status = "due_soon" /\ list[j].status = "overdue") => j < i
            /\ (\E i \in 1..Len(list) : list[i].status = "due_soon")
                  => \A k \in overdue : \E j \in 1..Len(list) : list[j] = dashTasks[k]

\* Of six upcoming tasks that alternate in the fetched list, five are shown:
\* the three overdue ones and two of the due-soon ones.
C24_witness ==
    /\ upcomingTasks.shown
    /\ Len(dashTasks) = 7
    /\ dashTasks[1].status = "due_soon"
    /\ dashTasks[3].status = "due_soon"
    /\ Len(upcomingTasks.list) = 5
    /\ upcomingTasks.list[3].status = "overdue"
    /\ upcomingTasks.list[4].status = "due_soon"

C26_latestAttemptShown ==
    (lastOp.op = "getLocation" /\ lastOp.outcome = "failed")
        => (~geoLoading /\ StatusPanel = "locationError")

\* The handlers of CarDetail that change the records of the backend.
Mutations == {"handleAddTask", "handleCompleteTask", "handleRequestReplacement",
              "handleAddMileage", "handleUpdateCar"}

\* C27: when the backend call of handleAddTask, handleCompleteTask,
\* handleRequestReplacement, handleAddMileage or handleUpdateCar fails (it does
\* not reach the backend, or the backend refuses it), the dialogs stay as they
\* are, the values of the forms are kept, no fetchCarData is called, and car
\* and tasks (set together with mileageLogs) are unchanged.
C27_failureChangesNothing ==
    [][(lastOp'.op \in Mutations /\ lastOp'.outcome \in {"failed", "rejected"})
         => /\ UNCHANGED <<addTaskOpen, addMileageOpen, completeTaskOpen,
                           replacementOpen, editCarOpen>>
            /\ UNCHANGED <<newTask, newMileage, completeMileage, replacementReason,
                           editCar>>
            /\ UNCHANGED <<inflight, car, tasks, loading>>
            /\ UNCHANGED <<srvTasks, srvMileage, srvPlate>>]_vars

\* C27 witness: the request of handleUpdateCar failed with a plate entered that
\* is not the car's; the dialog is open and the form holds the entry.
C27_witness ==
    /\ lastOp.op = "handleUpdateCar"
    /\ lastOp.outcome = "failed"
    /\ editCarOpen
    /\ editCar.license_plate # car.license_plate
    /\ inflight = {}

\* C29: routing settles without a redirect loop. With the auth state settled
\* a chain of redirects has at most LongestChain steps and is at its end when
\* it has that many; the page it ends at is the login or register page when
\* there is no user and a protected page when there is one; an unknown path
\* redirects to /dashboard.
C29_routingSettles ==
    /\ ~authLoading =>
          /\ redirects <= LongestChain
          /\ screen.kind = "navigate" => redirects < LongestChain
          /\ screen.kind # "spinner"
          /\ screen.kind = "page" =>
                IF user = NoUser THEN screen.of \in {"Login", "Register"}
                ELSE screen.of \in ProtectedPages
    /\ Location \notin {"/login", "/register"} \cup ProtectedPaths
          => screen = Navigate("/dashboard")

\* C29 witness: without a user an unknown path has led over /dashboard to the
\* login page, in two redirects.
C29_witness ==
    /\ ~authLoading
    /\ user = NoUser
    /\ redirects = LongestChain
    /\ Location = "/login"
    /\ screen = Page("Login")

====
